---- MODULE Spec2Model ----
(***************************************************************************)
(* Signed-envelope transport and bridge of the OBS relay agent.            *)
(*                                                                         *)
(*   internal/tunnel/bridge.go  (second half: envelope codec and policy)   *)
(*   unnamed/part_015           (writer-channel bridge, WaitForSession)    *)
(*   internal/monitor/monitor.go                                           *)
(*                                                                         *)
(* Byte strings are modelled by the attributes the code inspects: a JSON   *)
(* document by the outcome of decoding each field the code decodes, a hex  *)
(* or base64 string by its length class, its well-formedness and the bytes *)
(* it decodes to.  HMAC-SHA256 is an ideal MAC: the pair (key, message).   *)
(* Time is counted in units of timestampTolerance (30 s).                  *)
(***************************************************************************)
EXTENDS Integers, Sequences, FiniteSets, TLC

VARIABLES
    clock,      \* wall clock, time.Now().UnixMilli(), in units of 30 s
    conv,       \* what the build's float64->int64 conversion yields on overflow
    nonces,     \* NonceCache.nonces of the session: nonce -> receipt time
    obsOut,     \* frames written to the OBS socket, in order
    relaySend,  \* the writer channel (nil = ping)
    relayOut,   \* frames written to the relay socket, in order
    monCfg,     \* configs handed to Monitor.Configure, in order
    pipe,       \* "running", or the error that ended the session
    nFrames,    \* frames read from either socket so far
    acceptedAt, \* history: envelope -> clock of the first time Open accepted it
    last,       \* history: what the last Open call / the last relay frame read met
    polIn,      \* ValidateOBSProtocol: the call's arguments
    polOut,     \* ValidateOBSProtocol: its result
    cdIn,       \* Seal/Open round: the inputs drawn
    cdEnv,      \* Seal/Open round: the frame on the wire
    cdOut,      \* Seal/Open round: Open's result
    cdPc,       \* Seal/Open round: position
    sup,        \* Agent.Start: position, attempt, err, delay, handshake, result
    ctxDone,    \* Agent.ctx is cancelled
    statusSrv,  \* status.Server: status, obsConn, relayConn
    stopPc,     \* Agent.Stop: position
    hist,       \* history of the supervisor: failed sessions, close codes met
    ses,        \* EnvelopeBridge: its activities, errCh, the contexts, the sockets
    mon,        \* monitor.Monitor: mu, pollCancel, pollDone, the poll loop, its callers
    wq,         \* the writer channel with its producers and the writer
    lk,         \* the instance lock: the lock file, its inodes, the processes
    hs,         \* one call of WaitForSession: the frames read, the key, the result
    rel,        \* the release server: activeBuild, the requests, the processes
    wiz         \* the setup wizard: authDone, doneCh, the handlers, the poller

vars == <<clock, conv, nonces, obsOut, relaySend, relayOut, monCfg, pipe,
          nFrames, acceptedAt, last, polIn, polOut, cdIn, cdEnv, cdOut, cdPc,
          sup, ctxDone, statusSrv, stopPc, hist, ses, mon, wq, lk, hs, rel, wiz>>

codecVars == <<clock, conv, nonces>>
bridgeVars == <<obsOut, relaySend, relayOut, monCfg, pipe, nFrames, acceptedAt, last>>
polVars == <<polIn, polOut>>
cdVars == <<cdIn, cdEnv, cdOut, cdPc>>
agentVars == <<sup, ctxDone, statusSrv, stopPc, hist>>
extraVars == <<hs, rel, wiz>>
otherVars == <<ses, mon, wq, lk, hs, rel, wiz>>

None == "none"

\* the parts of the state a specification does not use stay as they start
CodecIdle == clock = 0 /\ conv = "saturate" /\ nonces = <<>>
BridgeIdle ==
    /\ obsOut = <<>> /\ relaySend = <<>> /\ relayOut = <<>> /\ monCfg = <<>>
    /\ pipe = None /\ nFrames = 0 /\ acceptedAt = <<>> /\ last = None
PolicyIdle == polIn = None /\ polOut = None
RoundIdle == cdIn = None /\ cdEnv = None /\ cdOut = None /\ cdPc = None
AgentIdle ==
    /\ sup = None /\ ctxDone = FALSE /\ statusSrv = None /\ stopPc = None /\ hist = None
ExtraIdle == hs = None /\ rel = None /\ wiz = None
OtherIdle == ses = None /\ mon = None /\ wq = None /\ lk = None /\ ExtraIdle

(***************************************************************************)
(* Bounds of the model.                                                    *)
(***************************************************************************)
MaxClock == 3       \* the clock runs 0..MaxClock
MaxFrames == 4      \* frames read from the two sockets in one session
MaxOpens == 4       \* Open calls on one nonce cache
MaxBridgeClock == 1 \* the clock runs 0..MaxBridgeClock during a bridge session
MaxBatch == 2       \* elements of d.requests in an op-8 payload

(***************************************************************************)
(* JSON as encoding/json decodes it.  A string field of a struct is either *)
(* absent or null (left at ""), of another JSON type (UnmarshalTypeError,  *)
(* left at "") or a string.  The decoder matches an object's keys to the   *)
(* struct's fields exactly or, failing that, without regard to letter      *)
(* case; a value of the wrong type leaves the field as it is, is recorded  *)
(* as the error Unmarshal returns in the end, and decoding goes on.        *)
(***************************************************************************)
JMissing == "json:missing"
JBadType == "json:badtype"

\* the value a string field holds after Unmarshal
FieldValue(f) == IF f \in {JMissing, JBadType} THEN "" ELSE f
\* whether decoding the field records an error
FieldErr(f) == f = JBadType

(***************************************************************************)
(* OBS WebSocket v5 protocol validation.                                   *)
(***************************************************************************)
FromAgent == 0
ToAgent == 1

\* mutant of allowedOpsFromAgent: Request (op 6) slipped into the outbound set
allowedOpsFromAgentWithRequest == {0, 2, 5, 6, 7, 9}

allowedOpsFromAgent == {0, 2, 5, 7, 9}

allowedOpsToAgent == {1, 6, 8}

allowedRequestTypes ==
    { "GetSceneList", "SetCurrentProgramScene", "GetCurrentProgramScene",
      "CreateScene", "RemoveScene", "SetSceneName",
      "GetSceneItemList", "GetSceneItemEnabled", "SetSceneItemEnabled",
      "GetSceneItemTransform", "SetSceneItemTransform", "RemoveSceneItem",
      "GetSourcesList", "GetSourceActive", "SetSourceFilterEnabled",
      "CreateInput", "GetInputSettings", "SetInputSettings", "SetInputName",
      "GetInputMute", "SetInputMute", "ToggleInputMute", "GetInputVolume",
      "SetInputVolume",
      "GetStreamStatus", "StartStream", "StopStream", "ToggleStream",
      "GetRecordStatus", "StartRecord", "StopRecord", "PauseRecord",
      "ResumeRecord",
      "GetReplayBufferStatus", "StartReplayBuffer", "StopReplayBuffer",
      "SaveReplayBuffer",
      "GetVirtualCamStatus", "StartVirtualCam", "StopVirtualCam",
      "GetStudioModeEnabled", "SetStudioModeEnabled",
      "TriggerMediaInputAction",
      "GetVideoSettings", "GetStats", "GetVersion" }

\* A payload: kind "json" decodes into obsMessage without error; every other
\* kind ("empty", "garbage", "badop": op of a non-integer type) makes
\* json.Unmarshal fail.  d.kind is "absent" (no d, or null: D stays nil),
\* "nonobject" (a JSON value no struct decodes from) or "object".  Of an
\* object, rt is the value under the key requestType and fold the value under
\* a key that differs from it in letter case only (as in "RequestType": 5),
\* which the decoder stores into the same field.
NoRequests == [state |-> "missing", items |-> <<>>]
NoD == [kind |-> "absent", rt |-> JMissing, fold |-> JMissing, rid |-> JMissing,
        rdata |-> "absent", requests |-> NoRequests]
NonObjectD == [NoD EXCEPT !.kind = "nonobject"]
ObjD(rt, rid, rdata, reqs) ==
    [kind |-> "object", rt |-> rt, fold |-> JMissing, rid |-> rid, rdata |-> rdata,
     requests |-> reqs]
WithFold(d, f) == [d EXCEPT !.fold = f]
Msg(op, d) == [kind |-> "json", op |-> op, d |-> d]
NotMsg(kind) == [kind |-> kind, op |-> 0, d |-> NoD]

\* json.Unmarshal(*msg.D, &obsRequestData{})
UnmarshalRequestData(d) ==
    IF d.kind # "object"
    THEN [err |-> TRUE, RequestType |-> ""]
    ELSE [err |-> FieldErr(d.rt) \/ FieldErr(d.fold), RequestType |-> FieldValue(d.rt)]

\* json.Unmarshal(*msg.D, &obsRequestBatchData{}): a type error in one element
\* is recorded, decoding goes on, and the error is returned at the end.
UnmarshalBatchData(d) ==
    IF d.kind # "object"
    THEN [err |-> TRUE, Requests |-> <<>>]
    ELSE IF d.requests.state = "missing"
    THEN [err |-> FALSE, Requests |-> <<>>]
    ELSE IF d.requests.state = "badtype"
    THEN [err |-> TRUE, Requests |-> <<>>]
    ELSE LET it == d.requests.items IN
         [err |-> \E i \in 1..Len(it) : (~it[i].obj) \/ FieldErr(it[i].rt),
          Requests |-> [i \in 1..Len(it) |->
                          IF it[i].obj THEN FieldValue(it[i].rt) ELSE ""]]

Rejected(reason) == [Valid |-> FALSE, Reason |-> reason]
Accepted == [Valid |-> TRUE, Reason |-> ""]

\* the first request of the batch that is named and not whitelisted, or 0
FirstForbidden(reqs) ==
    LET bad == {i \in 1..Len(reqs) : reqs[i] # "" /\ reqs[i] \notin allowedRequestTypes}
    IN IF bad = {} THEN 0 ELSE CHOOSE i \in bad : \A j \in bad : i <= j

ValidateOBSProtocol(payload, dir) ==
    IF payload.kind # "json" THEN Rejected("not_json")
    ELSE LET allowed == IF dir = FromAgent THEN allowedOpsFromAgent
                        ELSE allowedOpsToAgent
             req == UnmarshalRequestData(payload.d)
             batch == UnmarshalBatchData(payload.d)
             k == FirstForbidden(batch.Requests)
         IN IF payload.op \notin allowed
            THEN Rejected("forbidden_op_" \o ToString(payload.op))
            ELSE IF /\ payload.op = 6 /\ payload.d.kind # "absent"
                    /\ ~req.err
                    /\ req.RequestType # ""
                    /\ req.RequestType \notin allowedRequestTypes
            THEN Rejected("forbidden_request_" \o req.RequestType)
            ELSE IF /\ payload.op = 8 /\ payload.d.kind # "absent"
                    /\ ~batch.err
                    /\ k # 0
            THEN Rejected("forbidden_batch_request_" \o batch.Requests[k])
            ELSE Accepted

(***************************************************************************)
(* Inputs of the policy checks.                                            *)
(***************************************************************************)
Ops == (-1..9) \cup {42}
RequestNames == {"GetVersion", "Shutdown", "AgentConfigureMonitor"}
RtFields == {JMissing, JBadType, ""} \cup RequestNames
BatchItems == {[obj |-> FALSE, rt |-> JMissing]}
              \cup {[obj |-> TRUE, rt |-> f] : f \in {JMissing, JBadType, "GetVersion", "Shutdown"}}
SeqsUpTo(S, n) == UNION {[1..k -> S] : k \in 0..n}
RequestsFields == {NoRequests, [state |-> "badtype", items |-> <<>>]}
                  \cup {[state |-> "list", items |-> s] : s \in SeqsUpTo(BatchItems, MaxBatch)}
FoldFields == {JMissing, JBadType}
DValues == {NoD, NonObjectD}
           \cup {WithFold(ObjD(rt, "r1", "absent", rq), f) :
                    rt \in RtFields, rq \in RequestsFields, f \in FoldFields}
PolicyPayloads == {NotMsg("empty"), NotMsg("garbage"), NotMsg("badop")}
                  \cup {Msg(op, d) : op \in Ops, d \in DValues}

PolicyInit ==
    /\ polIn \in [payload : PolicyPayloads, dir : {FromAgent, ToAgent}]
    /\ polOut = Rejected("pending")
    /\ CodecIdle /\ BridgeIdle /\ RoundIdle /\ AgentIdle /\ OtherIdle

Validate ==
    /\ polOut = Rejected("pending")
    /\ polOut' = ValidateOBSProtocol(polIn.payload, polIn.dir)
    /\ UNCHANGED <<polIn, codecVars, bridgeVars, cdVars, agentVars, otherVars>>

PolicyNext == Validate

SpecPolicy == PolicyInit /\ [][PolicyNext]_vars

Validated == polOut.Reason # "pending"
\* the request types named by the elements of d.requests as sent
NamedInBatch(d) ==
    IF d.kind = "object" /\ d.requests.state = "list"
    THEN {d.requests.items[i].rt : i \in {j \in 1..Len(d.requests.items) :
                                            d.requests.items[j].obj}}
         \ {JMissing, JBadType, ""}
    ELSE {}

\* C3: RELAY_TO_AGENT accepts an op-6 payload only if d.requestType is a
\* whitelisted name; an op-6 payload naming another type is rejected with
\* forbidden_request_<name>, and one with a missing, empty or undecodable
\* d / requestType is rejected too.
Op6OnlyWhitelisted ==
    (Validated /\ polIn.dir = ToAgent /\ polIn.payload.kind = "json"
       /\ polIn.payload.op = 6)
    => LET d == polIn.payload.d IN
       /\ polOut.Valid => (d.kind = "object" /\ d.rt \in allowedRequestTypes)
       /\ (d.kind = "object" /\ d.rt \in RequestNames \ allowedRequestTypes)
            => polOut = Rejected("forbidden_request_" \o d.rt)

\* C4: RELAY_TO_AGENT rejects every op-8 payload in which some element of
\* d.requests names a request type outside the whitelist, whatever the other
\* elements look like.
Op8AnyForbiddenRejected ==
    (Validated /\ polIn.dir = ToAgent /\ polIn.payload.kind = "json"
       /\ polIn.payload.op = 8
       /\ NamedInBatch(polIn.payload.d) \ allowedRequestTypes # {})
    => ~polOut.Valid

\* C5: for every op n, AGENT_TO_RELAY accepts iff n is one of 0,2,5,7,9 and
\* RELAY_TO_AGENT passes the op check iff n is one of 1,6,8; no op passes in
\* both directions, and an op outside the direction's set is rejected with
\* forbidden_op_<n>.
OpsSplitByDirection ==
    (Validated /\ polIn.payload.kind = "json")
    => LET n == polIn.payload.op
           opReason == "forbidden_op_" \o ToString(n)
       IN /\ polIn.dir = FromAgent =>
                /\ polOut.Valid <=> n \in {0, 2, 5, 7, 9}
                /\ ~polOut.Valid => polOut.Reason = opReason
          /\ polIn.dir = ToAgent =>
                /\ polOut.Reason # opReason <=> n \in {1, 6, 8}
                /\ n \in {0, 2, 5, 7, 9} => ~polOut.Valid
          /\ {0, 2, 5, 7, 9} \cap {1, 6, 8} = {}

\* C5 witness: a Request arriving from OBS is turned away by its op
OpsSplitWitness ==
    /\ polIn.dir = FromAgent /\ polIn.payload.kind = "json"
    /\ polIn.payload.op = 6 /\ polOut = Rejected("forbidden_op_6")

(***************************************************************************)
(* Envelope codec.                                                         *)
(***************************************************************************)
timestampTolerance == 1     \* 30 s, the unit of time
nonceTTL == 2               \* 60000 ms
maxNonceCache == 2          \* 2000 in the source, scaled so that the cap is reached
Int64Bits == 6              \* int64 is 64 bits wide, scaled with the clock's range

MaxInt64 == 2^(Int64Bits - 1) - 1
MinInt64 == -(2^(Int64Bits - 1))
\* int64 arithmetic wraps
Wrap(x) == ((x - MinInt64) % (2^Int64Bits)) + MinInt64

\* int64(f) for a float64 f >= 0: a value int64 cannot hold converts to an
\* implementation-dependent value, 0x8000000000000000 on amd64 and the
\* saturated MaxInt64 on arm64.
ConvOutcomes == {"indefinite", "saturate"}
Float64ToInt64(f) ==
    IF f <= MaxInt64 THEN f
    ELSE IF conv = "indefinite" THEN MinInt64 ELSE MaxInt64

abs64(x) == IF x < 0 THEN Float64ToInt64(-x) ELSE x

Min(a, b) == IF a < b THEN a ELSE b

\* Strings of the envelope.  n: length, hex-validity, identity.
Str(len, hex, id) == [len |-> len, hex |-> hex, id |-> id]
EmptyN == Str(0, TRUE, 0)
\* hex.EncodeToString of 16 random bytes
HexNonce(r) == Str(32, TRUE, r)

NilPayload == NotMsg("nil")
EmptyPayload == NotMsg("empty")

\* p: length class, base64-validity, the bytes it decodes to
EmptyP == [len |-> 0, b64 |-> TRUE, bytes |-> EmptyPayload]
\* base64.StdEncoding.EncodeToString: the empty payload encodes to ""
B64Encode(payload) ==
    IF payload = EmptyPayload THEN EmptyP
    ELSE [len |-> 4, b64 |-> TRUE, bytes |-> payload]
\* base64.StdEncoding.DecodeString
B64Decode(p) ==
    IF p.b64 THEN [err |-> FALSE, bytes |-> p.bytes]
    ELSE [err |-> TRUE, bytes |-> NilPayload]

\* HMAC-SHA256(key, "1|t|n|p")
HMAC(key, t, n, p) == [key |-> key, t |-> t, n |-> n, p |-> p]

\* h: length class, hex-validity, letter case, the bytes it decodes to
EmptyH == [len |-> 0, hex |-> TRUE, upper |-> FALSE, bytes |-> HMAC("", 0, EmptyN, EmptyP)]
\* hex.EncodeToString writes lower-case digits
HexEncode(mac) == [len |-> 64, hex |-> TRUE, upper |-> FALSE, bytes |-> mac]
\* hex.DecodeString reads digits of either case
HexDecode(h) == [err |-> ~h.hex, bytes |-> h.bytes]

Envelope(v, t, n, p, h) == [json |-> TRUE, v |-> v, t |-> t, n |-> n, p |-> p, h |-> h]
\* a frame json.Unmarshal rejects
NotJSON == [json |-> FALSE, v |-> 0, t |-> 0, n |-> EmptyN, p |-> EmptyP, h |-> EmptyH]

\* NonceCache
NewNonceCache == <<>>

has(nc, n) == n \in DOMAIN nc

\* mutant of evictExpired: a nonce is dropped as soon as it is older than the
\* timestamp tolerance less one unit
evictExpiredEarly(nc, now) ==
    [x \in {k \in DOMAIN nc : ~(now - nc[k] > timestampTolerance - 1)} |-> nc[x]]

evictExpired(nc, now) ==
    [x \in {k \in DOMAIN nc : ~(now - nc[k] > nonceTTL)} |-> nc[x]]

\* mutant of add: the size cap is forgotten
addUncapped(nc, n, now) ==
    {[x \in DOMAIN nc \cup {n} |-> IF x = n THEN now ELSE nc[x]]}

\* add returns the caches the call can leave: the map is walked in an
\* unspecified order, so any entry of the least timestamp may be the one evicted.
add(nc, n, now) ==
    LET put == [x \in DOMAIN nc \cup {n} |-> IF x = n THEN now ELSE nc[x]]
        oldest == {k \in DOMAIN put : \A j \in DOMAIN put : put[k] <= put[j]}
    IN IF Cardinality(DOMAIN put) > maxNonceCache
       THEN {[x \in DOMAIN put \ {k} |-> put[x]] : k \in oldest}
       ELSE {put}

\* Seal; now and rnd are its reads of the clock and of crypto/rand
Seal(sessionKey, payload, now, rnd) ==
    LET n == HexNonce(rnd)
        p == B64Encode(payload)
    IN Envelope(1, now, n, p, HexEncode(HMAC(sessionKey, now, n, p)))

OpenResult(valid, payload, reason) ==
    [Valid |-> valid, Payload |-> payload, Reason |-> reason]
Invalid(reason) == OpenResult(FALSE, NilPayload, reason)

\* lines 372-393: decoding and the structural checks; "" when they pass
CheckFields(raw) ==
    IF ~raw.json THEN "not_json"
    ELSE IF raw.v # 1 THEN "bad_version"
    ELSE IF raw.n.len = 0 \/ raw.p.len = 0 \/ raw.h.len = 0 THEN "bad_fields"
    ELSE IF raw.n.len # 32 THEN "bad_nonce"
    ELSE IF ~raw.n.hex THEN "bad_nonce"
    ELSE ""

\* lines 395-404
VerifyHMAC(sessionKey, env) ==
    LET actual == HexDecode(env.h)
    IN ~actual.err /\ actual.bytes = HMAC(sessionKey, env.t, env.n, env.p)

\* lines 406-410
TimestampExpired(env, now) == abs64(Wrap(now - env.t)) > timestampTolerance

\* lines 412-431: the cache is consulted and updated, then the payload decoded
Admit(env, cache, now) ==
    LET live == evictExpired(cache, now)
        dec == B64Decode(env.p)
    IN IF has(live, env.n)
       THEN {[res |-> Invalid("replay"), cache |-> live]}
       ELSE {[res |-> IF dec.err THEN Invalid("bad_payload")
                      ELSE OpenResult(TRUE, dec.bytes, ""),
              cache |-> c] : c \in add(live, env.n, now)}

\* mutant of Open: the timestamp is checked before the HMAC
OpenTimestampFirst(sessionKey, raw, cache, now) ==
    IF CheckFields(raw) # "" THEN {[res |-> Invalid(CheckFields(raw)), cache |-> cache]}
    ELSE IF TimestampExpired(raw, now)
    THEN {[res |-> Invalid("timestamp_expired"), cache |-> cache]}
    ELSE IF ~VerifyHMAC(sessionKey, raw)
    THEN {[res |-> Invalid("bad_hmac"), cache |-> cache]}
    ELSE Admit(raw, cache, now)

\* Open returns the pairs (result, cache afterwards) the call can produce; now
\* is its read of the clock, when the call's reads of the clock coincide.
Open(sessionKey, raw, cache, now) ==
    IF CheckFields(raw) # "" THEN {[res |-> Invalid(CheckFields(raw)), cache |-> cache]}
    ELSE IF ~VerifyHMAC(sessionKey, raw)
    THEN {[res |-> Invalid("bad_hmac"), cache |-> cache]}
    ELSE IF TimestampExpired(raw, now)
    THEN {[res |-> Invalid("timestamp_expired"), cache |-> cache]}
    ELSE Admit(raw, cache, now)

\* the clock as one Open call reads it: for the timestamp check (line 407),
\* in evictExpired (line 302) and in add (line 311), one after the other
Readings(now, until) ==
    {r \in [check : {now}, evict : now..until, add : now..until] : r.evict <= r.add}

\* lines 412-431 with the clock read in evictExpired and again in add
AdmitReading(env, cache, at) ==
    LET live == evictExpired(cache, at.evict)
        dec == B64Decode(env.p)
    IN IF has(live, env.n)
       THEN {[res |-> Invalid("replay"), cache |-> live]}
       ELSE {[res |-> IF dec.err THEN Invalid("bad_payload")
                      ELSE OpenResult(TRUE, dec.bytes, ""),
              cache |-> c] : c \in add(live, env.n, at.add)}

\* mutant of OpenReading: the expired nonces are evicted before the envelope
\* is looked at
OpenReadingEvictFirst(sessionKey, raw, cache, at) ==
    LET live == evictExpired(cache, at.evict)
    IN IF CheckFields(raw) # "" THEN {[res |-> Invalid(CheckFields(raw)), cache |-> live]}
       ELSE IF ~VerifyHMAC(sessionKey, raw)
       THEN {[res |-> Invalid("bad_hmac"), cache |-> live]}
       ELSE IF TimestampExpired(raw, at.check)
       THEN {[res |-> Invalid("timestamp_expired"), cache |-> live]}
       ELSE AdmitReading(raw, cache, at)

\* Open with each of its reads of the clock
OpenReading(sessionKey, raw, cache, at) ==
    IF CheckFields(raw) # "" THEN {[res |-> Invalid(CheckFields(raw)), cache |-> cache]}
    ELSE IF ~VerifyHMAC(sessionKey, raw)
    THEN {[res |-> Invalid("bad_hmac"), cache |-> cache]}
    ELSE IF TimestampExpired(raw, at.check)
    THEN {[res |-> Invalid("timestamp_expired"), cache |-> cache]}
    ELSE AdmitReading(raw, cache, at)

(***************************************************************************)
(* One Seal/Open round: a peer seals a payload, the frame may be changed   *)
(* in one field on the wire, time may pass, and Open is called on it.      *)
(***************************************************************************)
SessionKey == "Ks"
Keys == {SessionKey, "Kx"}
GetVersionMsg == Msg(6, ObjD("GetVersion", "r1", "absent", NoRequests))
EventMsg == Msg(5, NoD)
CodecPayloads == {EmptyPayload, NotMsg("garbage"), GetVersionMsg}
\* the sealing peer's clock minus ours
Skews == {-(timestampTolerance + 1), -timestampTolerance, 0, timestampTolerance,
          MinInt64}
Rnds == {1, 2}
Tampers == {"none", "v0", "v2", "tInc", "tDec", "nOther", "nEmpty", "nShort",
            "nNonHex", "pOther", "pEmpty", "pNotB64", "hOther", "hEmpty",
            "hNonHex", "hUpper"}

\* the frame with one field given another value
Tamper(env, how) ==
    CASE how = "v0" -> [env EXCEPT !.v = 0]
      [] how = "v2" -> [env EXCEPT !.v = 2]
      [] how = "tInc" -> [env EXCEPT !.t = Wrap(env.t + 1)]
      [] how = "tDec" -> [env EXCEPT !.t = Wrap(env.t - 1)]
      [] how = "nOther" -> [env EXCEPT !.n = HexNonce(env.n.id + 1)]
      [] how = "nEmpty" -> [env EXCEPT !.n = EmptyN]
      [] how = "nShort" -> [env EXCEPT !.n = Str(31, TRUE, env.n.id)]
      [] how = "nNonHex" -> [env EXCEPT !.n = Str(32, FALSE, env.n.id)]
      [] how = "pOther" -> [env EXCEPT !.p = B64Encode(EventMsg)]
      [] how = "pEmpty" -> [env EXCEPT !.p = EmptyP]
      [] how = "pNotB64" -> [env EXCEPT !.p = [len |-> 4, b64 |-> FALSE, bytes |-> NilPayload]]
      [] how = "hOther" -> [env EXCEPT !.h = HexEncode(HMAC("Kz", env.t, env.n, env.p))]
      [] how = "hEmpty" -> [env EXCEPT !.h = EmptyH]
      [] how = "hNonHex" -> [env EXCEPT !.h = [env.h EXCEPT !.hex = FALSE]]
      [] how = "hUpper" -> [env EXCEPT !.h = [env.h EXCEPT !.upper = TRUE]]
      [] OTHER -> env

CodecInit ==
    /\ clock = 0
    /\ conv \in ConvOutcomes
    /\ cdIn \in [key : Keys, payload : CodecPayloads, skew : Skews, rnd : Rnds,
                 tamper : Tampers,
                 cache : {NewNonceCache, [x \in {HexNonce(1)} |-> 0]}]
    /\ nonces = cdIn.cache
    /\ cdEnv = NotJSON
    /\ cdOut = Invalid("pending")
    /\ cdPc = "seal"
    /\ BridgeIdle /\ PolicyIdle /\ AgentIdle /\ OtherIdle

SealStep ==
    /\ cdPc = "seal"
    /\ cdEnv' = Seal(cdIn.key, cdIn.payload, Wrap(clock + cdIn.skew), cdIn.rnd)
    /\ cdPc' = IF cdIn.tamper = "none" THEN "ready" ELSE "wire"
    /\ UNCHANGED <<clock, conv, nonces, cdIn, cdOut, bridgeVars, polVars, agentVars, otherVars>>

TamperStep ==
    /\ cdPc = "wire"
    /\ Tamper(cdEnv, cdIn.tamper) # cdEnv
    /\ cdEnv' = Tamper(cdEnv, cdIn.tamper)
    /\ cdPc' = "ready"
    /\ UNCHANGED <<clock, conv, nonces, cdIn, cdOut, bridgeVars, polVars, agentVars, otherVars>>

CodecTick ==
    /\ cdPc = "ready"
    /\ clock < MaxClock
    /\ clock' = clock + 1
    /\ UNCHANGED <<conv, nonces, cdIn, cdEnv, cdOut, cdPc, bridgeVars, polVars, agentVars, otherVars>>

OpenStep ==
    /\ cdPc = "ready"
    /\ \E o \in Open(SessionKey, cdEnv, nonces, clock) :
          /\ cdOut' = o.res
          /\ nonces' = o.cache
    /\ cdPc' = "done"
    /\ UNCHANGED <<clock, conv, cdIn, cdEnv, bridgeVars, polVars, agentVars, otherVars>>

CodecNext == SealStep \/ TamperStep \/ CodecTick \/ OpenStep

SpecOpen == CodecInit /\ [][CodecNext]_vars

Opened == cdPc = "done"
\* the frame passes the structural checks that precede the HMAC
WellFormed(env) ==
    /\ env.json /\ env.v = 1
    /\ env.n.len = 32 /\ env.n.hex /\ env.p.len # 0 /\ env.h.len # 0
\* the frame carries the HMAC the session key gives its t, n and p: it was
\* sealed under the session key and no signed field or digest byte was changed
Authentic == cdIn.key = SessionKey /\ cdIn.tamper \in {"none", "hUpper"}
\* the opener's clock is within the tolerance of the frame's timestamp
InWindow(env, now) ==
    now - env.t <= timestampTolerance /\ env.t - now <= timestampTolerance

\* C7: Open verifies the HMAC before the timestamp: a well-formed frame with
\* a wrong HMAC and a timestamp outside the window yields bad_hmac, and
\* timestamp_expired is returned only for frames whose HMAC verified.
HmacBeforeTimestamp ==
    Opened =>
      /\ (WellFormed(cdEnv) /\ ~Authentic /\ ~InWindow(cdEnv, clock))
           => cdOut = Invalid("bad_hmac")
      /\ cdOut.Reason = "timestamp_expired" => Authentic

\* C7 witness: a forged and expired frame was opened and answered bad_hmac
HmacBeforeTimestampWitness ==
    /\ Opened /\ WellFormed(cdEnv) /\ ~Authentic /\ ~InWindow(cdEnv, clock)
    /\ cdOut.Reason = "bad_hmac"

\* C8: round trip: for every payload, the empty one included, and every key,
\* Open(k, Seal(k, p), fresh cache) with the clock inside the window is valid
\* and returns p.
RoundTrip ==
    (Opened /\ cdIn.key = SessionKey /\ cdIn.tamper = "none"
       /\ cdIn.cache = NewNonceCache /\ InWindow(cdEnv, clock))
    => (cdOut.Valid /\ cdOut.Payload = cdIn.payload)

\* C10: changing the value of any single field of a sealed envelope makes
\* Open return Valid=false.  (The claim also names the reason, bad_hmac; the
\* checks that precede the HMAC answer bad_version, bad_fields or bad_nonce
\* for some changes, so the formula keeps the part that does not depend on
\* the reason.)
AnyFieldChangeInvalid ==
    (Opened /\ cdIn.tamper # "none") => ~cdOut.Valid

\* What Open does answer to a changed field: but for the letter case of h's
\* hex digits the frame is rejected and the cache untouched; the reason is
\* bad_hmac when the changed frame is still well-formed, and bad_version,
\* bad_fields or bad_nonce when it is not.
ChangedFieldReasons ==
    (Opened /\ cdIn.tamper \notin {"none", "hUpper"})
    => /\ ~cdOut.Valid
       /\ cdOut.Reason \in {"bad_version", "bad_fields", "bad_nonce", "bad_hmac"}
       /\ WellFormed(cdEnv) <=> cdOut.Reason = "bad_hmac"
       /\ cdEnv.v # 1 => cdOut.Reason = "bad_version"
       /\ nonces = cdIn.cache

(***************************************************************************)
(* A sequence of Open calls on one NonceCache, the clock advancing in      *)
(* between.  The frames offered carry every timestamp the clock can come   *)
(* near, so a frame opened once can be offered again at any later time.    *)
(***************************************************************************)
NonceIds == {1, 2, 3}
\* none of these timestamps is far enough from the clock for abs64 to overflow
CacheTimes == -1..(MaxClock + 1)
\* a frame whose HMAC is right and whose p is not base64
Crafted(t, r) ==
    LET n == HexNonce(r)
        p == [len |-> 4, b64 |-> FALSE, bytes |-> NilPayload]
    IN Envelope(1, t, n, p, HexEncode(HMAC(SessionKey, t, n, p)))
CacheFrames ==
    {Seal(k, GetVersionMsg, t, r) : k \in Keys, t \in CacheTimes, r \in NonceIds}
    \cup {Crafted(t, r) : t \in 0..MaxClock, r \in NonceIds}
    \cup {NotJSON}

\* Nonces are random and interchangeable: a frame brings a nonce already met
\* or the next one not yet met.
MetIds == {n.id : n \in DOMAIN nonces} \cup {e.n.id : e \in DOMAIN acceptedAt}
NextIds == {r \in NonceIds : \A q \in NonceIds : q < r => q \in MetIds}

NoCall == [resubmitted |-> FALSE, within |-> FALSE, Valid |-> FALSE, Reason |-> ""]

CacheInit ==
    /\ clock = 0
    /\ conv = "saturate"
    /\ nonces = NewNonceCache
    /\ acceptedAt = <<>>
    /\ last = NoCall
    /\ nFrames = 0
    /\ obsOut = <<>> /\ relaySend = <<>> /\ relayOut = <<>> /\ monCfg = <<>>
    /\ pipe = None
    /\ PolicyIdle /\ RoundIdle /\ AgentIdle /\ OtherIdle

CacheTick ==
    /\ clock < MaxClock
    /\ clock' = clock + 1
    /\ UNCHANGED <<conv, nonces, bridgeVars, polVars, cdVars, agentVars, otherVars>>

\* the frames a caller can hand to Open, up to the choice of new nonces
OfferedFrames == {f \in CacheFrames : f.n.id \in NextIds \cup {0}}

OpenCall ==
    /\ nFrames < MaxOpens
    /\ \E raw \in OfferedFrames :
         \E at \in Readings(clock, Min(clock + 1, MaxClock)) :
         \E o \in OpenReading(SessionKey, raw, nonces, at) :
            /\ nonces' = o.cache
            /\ clock' = at.add
            /\ last' = IF raw \in DOMAIN acceptedAt
                        THEN [resubmitted |-> TRUE,
                              within |-> clock - acceptedAt[raw] <= nonceTTL,
                              Valid |-> o.res.Valid, Reason |-> o.res.Reason]
                        ELSE NoCall
            /\ acceptedAt' =
                 IF o.res.Valid /\ raw \notin DOMAIN acceptedAt
                 THEN [x \in DOMAIN acceptedAt \cup {raw} |->
                         IF x = raw THEN clock ELSE acceptedAt[x]]
                 ELSE acceptedAt
    /\ nFrames' = nFrames + 1
    /\ UNCHANGED <<conv, obsOut, relaySend, relayOut, monCfg, pipe, polVars, cdVars, agentVars, otherVars>>

CacheNext == CacheTick \/ OpenCall

SpecCache == CacheInit /\ [][CacheNext]_vars

\* C6: an envelope Open has accepted, offered again on the same cache within
\* 60 s of that acceptance, is answered Valid=false, whatever was opened in
\* between.  (The claim also names the reason, replay; an envelope whose
\* timestamp has left the window by then is answered timestamp_expired, so
\* the formula keeps the part that does not depend on the reason.)
ResubmittedIsRejected ==
    (last.resubmitted /\ last.within) => ~last.Valid

\* C9: the cache never holds more than maxNonceCache nonces.
CacheSizeBounded == Cardinality(DOMAIN nonces) <= maxNonceCache

\* C9 witness: more envelopes than the cap were accepted before any entry
\* could age out, and the cache is full
CacheSizeWitness ==
    /\ clock <= nonceTTL
    /\ Cardinality(DOMAIN acceptedAt) > maxNonceCache
    /\ Cardinality(DOMAIN nonces) = maxNonceCache

(***************************************************************************)
(* The writer-channel bridge of one session (EnvelopeBridge): the          *)
(* relay-to-OBS pipe, the OBS-to-relay pipe, the relay writer and the ping *)
(* timer, sharing the session key, one nonce cache and the writer channel. *)
(***************************************************************************)
relaySendCap == 2           \* 64 in the source, scaled so that the channel fills

\* what the relay side puts on the wire: frames sealed up to now under the
\* session key or another one, binary frames, text that is no envelope
ConfigureMonitorMsgs ==
    {Msg(6, WithFold(ObjD("AgentConfigureMonitor", rid, rdata, NoRequests), f)) :
        rid \in {"r1"}, rdata \in {"cfg", "badcfg"}, f \in FoldFields}
RelayPayloads ==
    {GetVersionMsg, Msg(6, ObjD("Shutdown", "r1", "absent", NoRequests)), EventMsg}
    \cup ConfigureMonitorMsgs
RelayFrames ==
    {Seal(k, p, t, r) : k \in Keys, p \in RelayPayloads, t \in 0..MaxBridgeClock,
                        r \in NonceIds}
    \cup {NotJSON}
\* what OBS sends
ResponseMsg == Msg(7, ObjD("GetVersion", "r1", "absent", NoRequests))
ObsPayloads == {EventMsg, ResponseMsg, GetVersionMsg, NotMsg("garbage")}
\* crypto/rand as the relay writer reads it: a nonce no frame carried before
FreshRnd == 10 + Len(relayOut)

\* json.Unmarshal(*check.Parsed.D, &reqData) of the interception step
UnmarshalIntercept(d) ==
    IF d.kind # "object"
    THEN [err |-> TRUE, RequestType |-> "", RequestID |-> "", RequestData |-> "absent"]
    ELSE [err |-> FieldErr(d.rt) \/ FieldErr(d.fold) \/ FieldErr(d.rid),
          RequestType |-> FieldValue(d.rt), RequestID |-> FieldValue(d.rid),
          RequestData |-> d.rdata]

\* json.Unmarshal(reqData.RequestData, &cfg): fails on absent or malformed data
UnmarshalConfig(rdata) == [err |-> rdata # "cfg", cfg |-> rdata]

\* the synthetic op-7 response to AgentConfigureMonitor
ConfigureResponse(rid) ==
    Msg(7, ObjD("AgentConfigureMonitor", rid, "result:true,code:100", NoRequests))

\* the op-5 AgentSourceState event Monitor.sendState hands to sendEvent
AgentSourceState == Msg(5, ObjD(JMissing, JMissing, "absent", NoRequests))

\* a frame names AgentConfigureMonitor as the request type of an op-6 request
IsConfigureMonitor(payload) ==
    /\ payload.kind = "json" /\ payload.op = 6
    /\ payload.d.kind = "object" /\ payload.d.rt = "AgentConfigureMonitor"

\* mutant of Disposition: the `continue` after a policy rejection is missing
\* and the payload goes on to OBS
DispositionFallThrough(text, res, check) ==
    IF ~text THEN "drop"
    ELSE IF ~res.Valid THEN "drop"
    ELSE IF ~check.Valid THEN "forward"
    ELSE LET req == UnmarshalIntercept(res.Payload.d)
         IN IF /\ res.Payload.op = 6 /\ res.Payload.d.kind # "absent"
               /\ ~req.err /\ req.RequestType = "AgentConfigureMonitor"
            THEN "intercept" ELSE "forward"

\* what one iteration of pipeRelayToOBS does with the frame it read: text says
\* it is a text frame, res is Open's result, check ValidateOBSProtocol's
Disposition(text, res, check) ==
    IF ~text THEN "drop"
    ELSE IF ~res.Valid THEN "drop"
    ELSE IF ~check.Valid THEN "drop"
    ELSE LET req == UnmarshalIntercept(res.Payload.d)
         IN IF /\ res.Payload.op = 6 /\ res.Payload.d.kind # "absent"
               /\ ~req.err /\ req.RequestType = "AgentConfigureMonitor"
            THEN "intercept" ELSE "forward"

\* mutant of TrySend: the send appends whatever the channel holds
TrySendUnbounded(ch, item) == Append(ch, item)

\* non-blocking send on the writer channel: the item is dropped when it is full
TrySend(ch, item) == IF Len(ch) < relaySendCap THEN Append(ch, item) ELSE ch

\* the request the relay sends to configure the monitor, as the wire
\* protocol describes it: requestId a string, requestData a well-formed config
WellFormedConfigure(payload) ==
    /\ IsConfigureMonitor(payload)
    /\ payload.d.fold = JMissing /\ payload.d.rid = "r1" /\ payload.d.rdata = "cfg"

\* history of the last frame read from the relay: its place among the frames
\* read, whether it was a text frame, whether Open accepted it, whether
\* ValidateOBSProtocol accepted its payload, whether it carried a well-formed
\* AgentConfigureMonitor in a valid envelope
NoRead == [at |-> 0, text |-> FALSE, opened |-> FALSE, allowed |-> FALSE,
           configure |-> FALSE]
ReadOf(at, text, res, check) ==
    [at |-> at, text |-> text, opened |-> text /\ res.Valid,
     allowed |-> text /\ res.Valid /\ check.Valid,
     configure |-> text /\ res.Valid /\ WellFormedConfigure(res.Payload)]

Init ==
    /\ clock = 0
    /\ conv = "saturate"
    /\ nonces = NewNonceCache
    /\ obsOut = <<>>
    /\ relaySend = <<>>
    /\ relayOut = <<>>
    /\ monCfg = <<>>
    /\ pipe = "running"
    /\ nFrames = 0
    /\ acceptedAt = <<>>
    /\ last = NoRead
    /\ PolicyIdle /\ RoundIdle /\ AgentIdle /\ OtherIdle

Tick ==
    /\ clock < MaxBridgeClock
    /\ clock' = clock + 1
    /\ UNCHANGED <<conv, nonces, bridgeVars, polVars, cdVars, agentVars, otherVars>>

BridgeMetIds == {n.id : n \in DOMAIN nonces} \cup {obsOut[i].env.n.id : i \in DOMAIN obsOut}

\* one iteration of pipeRelayToOBS on a frame the relay socket delivers
pipeRelayToOBS ==
    /\ pipe = "running"
    /\ nFrames < MaxFrames
    /\ nFrames' = nFrames + 1
    /\ \E text \in BOOLEAN :
       \E data \in {f \in RelayFrames :
                      /\ f.t <= clock
                      /\ \A q \in NonceIds : q < f.n.id => q \in BridgeMetIds} :
       \E o \in IF text THEN Open(SessionKey, data, nonces, clock)
                ELSE {[res |-> Invalid("unread"), cache |-> nonces]} :
         LET check == ValidateOBSProtocol(o.res.Payload, ToAgent)
             what == Disposition(text, o.res, check)
             req == UnmarshalIntercept(o.res.Payload.d)
             cfg == UnmarshalConfig(req.RequestData)
         IN /\ nonces' = o.cache
            /\ last' = ReadOf(nFrames + 1, text, o.res, check)
            /\ IF what = "intercept"
               THEN /\ monCfg' = IF cfg.err THEN monCfg ELSE Append(monCfg, cfg.cfg)
                    /\ relaySend' = TrySend(relaySend, ConfigureResponse(req.RequestID))
                    /\ UNCHANGED <<obsOut, pipe>>
               ELSE IF what = "forward"
               THEN /\ \/ /\ obsOut' = Append(obsOut, [payload |-> o.res.Payload,
                                                      env |-> data, at |-> clock])
                          /\ UNCHANGED pipe
                       \/ /\ pipe' = "OBS write error"
                          /\ UNCHANGED obsOut
                    /\ UNCHANGED <<monCfg, relaySend>>
               ELSE UNCHANGED <<obsOut, pipe, monCfg, relaySend>>
    /\ UNCHANGED <<clock, conv, relayOut, acceptedAt, polVars, cdVars, agentVars, otherVars>>

\* relay.ReadMessage fails: the pipe returns the error and the session ends
relayReadError ==
    /\ pipe = "running"
    /\ pipe' = "relay read error"
    /\ UNCHANGED <<codecVars, obsOut, relaySend, relayOut, monCfg, nFrames,
                   acceptedAt, last, polVars, cdVars, agentVars, otherVars>>

\* mutant of pipeOBSToRelay: the frame is queued without the policy check
pipeOBSToRelayUnchecked ==
    /\ pipe = "running"
    /\ nFrames < MaxFrames
    /\ nFrames' = nFrames + 1
    /\ \E text \in BOOLEAN : \E data \in ObsPayloads :
         relaySend' = IF text THEN TrySend(relaySend, data) ELSE relaySend
    /\ UNCHANGED <<codecVars, obsOut, relayOut, monCfg, pipe, acceptedAt, last,
                   polVars, cdVars, agentVars, otherVars>>

\* one iteration of pipeOBSToRelay on a frame the OBS socket delivers
pipeOBSToRelay ==
    /\ pipe = "running"
    /\ nFrames < MaxFrames
    /\ nFrames' = nFrames + 1
    /\ \E text \in BOOLEAN : \E data \in ObsPayloads :
         relaySend' = IF text /\ ValidateOBSProtocol(data, FromAgent).Valid
                      THEN TrySend(relaySend, data)
                      ELSE relaySend
    /\ UNCHANGED <<codecVars, obsOut, relayOut, monCfg, pipe, acceptedAt, last,
                   polVars, cdVars, agentVars, otherVars>>

\* obs.ReadMessage fails
obsReadError ==
    /\ pipe = "running"
    /\ pipe' = "OBS read error"
    /\ UNCHANGED <<codecVars, obsOut, relaySend, relayOut, monCfg, nFrames,
                   acceptedAt, last, polVars, cdVars, agentVars, otherVars>>

\* mutant of pingTimer: the ticker goroutine writes the ping to the relay
\* socket itself
pingTimerDirect ==
    /\ pipe = "running"
    /\ nFrames < MaxFrames
    /\ nFrames' = nFrames + 1
    /\ relayOut' = Append(relayOut, [type |-> "ping", data |-> NotJSON])
    /\ UNCHANGED <<codecVars, obsOut, relaySend, monCfg, pipe, acceptedAt, last,
                   polVars, cdVars, agentVars, otherVars>>

\* the ping timer fires: non-blocking send of nil
pingTimer ==
    /\ pipe = "running"
    /\ nFrames < MaxFrames
    /\ nFrames' = nFrames + 1
    /\ relaySend' = TrySend(relaySend, NilPayload)
    /\ UNCHANGED <<codecVars, obsOut, relayOut, monCfg, pipe, acceptedAt, last,
                   polVars, cdVars, agentVars, otherVars>>

\* one iteration of relayWriter: nil is written as a ping, anything else is
\* sealed and written as a text frame; a payload Seal fails on (no random
\* bytes) is skipped, and a failed write ends the session
relayWriter ==
    /\ pipe = "running"
    /\ relaySend # <<>>
    /\ relaySend' = Tail(relaySend)
    /\ \/ /\ Head(relaySend) = NilPayload
          /\ relayOut' = Append(relayOut, [type |-> "ping", data |-> NotJSON])
          /\ UNCHANGED pipe
       \/ /\ Head(relaySend) # NilPayload
          /\ relayOut' = Append(relayOut,
                [type |-> "text",
                 data |-> Seal(SessionKey, Head(relaySend), clock, FreshRnd)])
          /\ UNCHANGED pipe
       \/ /\ Head(relaySend) # NilPayload
          /\ UNCHANGED <<relayOut, pipe>>
       \/ /\ pipe' = IF Head(relaySend) = NilPayload THEN "ping write error"
                     ELSE "relay write error"
          /\ UNCHANGED relayOut
    /\ UNCHANGED <<codecVars, obsOut, monCfg, nFrames, acceptedAt, last, polVars, cdVars, agentVars, otherVars>>

Next ==
    \/ Tick
    \/ pipeRelayToOBS
    \/ relayReadError
    \/ pipeOBSToRelay
    \/ obsReadError
    \/ pingTimer
    \/ relayWriter

Spec == Init /\ [][Next]_vars

\* what Open and ValidateOBSProtocol have to say of an entry of obsOut
AcceptableWrite(w) ==
    /\ WellFormed(w.env)
    /\ w.env.h.bytes = HMAC(SessionKey, w.env.t, w.env.n, w.env.p)
    /\ InWindow(w.env, w.at)
    /\ B64Decode(w.env.p) = [err |-> FALSE, bytes |-> w.payload]
    /\ ValidateOBSProtocol(w.payload, ToAgent).Valid

\* C1: every payload written to the OBS socket is the payload of an envelope
\* with a valid HMAC under the session key and a timestamp in the window,
\* accepted by ValidateOBSProtocol towards the agent, and no envelope is
\* written to OBS more than once.
ObsOnlyFromAcceptedOnce ==
    /\ \A i \in DOMAIN obsOut : AcceptableWrite(obsOut[i])
    /\ \A i, j \in DOMAIN obsOut : obsOut[i].env = obsOut[j].env => i = j

\* what the relay writer has to say of a text frame it wrote: it is Seal's
\* output under the session key for a payload the outbound policy accepts
SealedOutbound(e) ==
    /\ B64Decode(e.p).bytes.kind = "json"
    /\ B64Decode(e.p).bytes.op \in {0, 2, 5, 7, 9}
    /\ e = Seal(SessionKey, B64Decode(e.p).bytes, e.t, e.n.id)

\* C11: every text frame written to the relay socket is Seal's output under
\* the session key for a payload whose op is one of 0, 2, 5, 7, 9; so is
\* every item waiting in the writer channel, and so are the payloads the
\* monitor and the intercepted-request responder produce.
RelayFramesSealedOutbound ==
    /\ \A i \in DOMAIN relayOut :
          relayOut[i].type = "text" => SealedOutbound(relayOut[i].data)
    /\ \A i \in DOMAIN relaySend :
          relaySend[i] # NilPayload =>
             relaySend[i].kind = "json" /\ relaySend[i].op \in {0, 2, 5, 7, 9}
    /\ AgentSourceState.op \in {0, 2, 5, 7, 9}
    /\ \A rid \in {"r1", ""} : ConfigureResponse(rid).op \in {0, 2, 5, 7, 9}

\* C11 witness: a response read from OBS has been sealed onto the relay
RelayFramesWitness ==
    \E i \in DOMAIN relayOut :
       /\ relayOut[i].type = "text"
       /\ B64Decode(relayOut[i].data.p).bytes = ResponseMsg

\* C12: the relay socket is written by relayWriter alone: every step that
\* changes what was written to it is one iteration of the writer taking the
\* head of the channel, so writes come one after the other; the other
\* activities only append to the channel.
OnlyWriterWritesRelay ==
    [][/\ relayOut' # relayOut => relayWriter
       /\ (relaySend' # relaySend /\ ~relayWriter) =>
             (relayOut' = relayOut /\ Len(relaySend') = Len(relaySend) + 1)]_vars

\* C12 witness: pings and data frames from several producers went out
OnlyWriterWitness ==
    /\ \E i \in DOMAIN relayOut : relayOut[i].type = "ping"
    /\ \E i \in DOMAIN relayOut : relayOut[i].type = "text"
    /\ relaySend # <<>>

\* the step is an iteration of pipeRelayToOBS: the frame just read is the one
\* the history records
RelayRead == nFrames' = nFrames + 1 /\ last'.at = nFrames'

\* C13: a relay frame that is not text, that Open rejects or that the policy
\* rejects is dropped: nothing is written to OBS or queued for it, and the
\* pipe keeps running.
FailedFrameDropped ==
    [][(RelayRead /\ ~(last'.text /\ last'.opened /\ last'.allowed))
         => (obsOut' = obsOut /\ relaySend' = relaySend /\ monCfg' = monCfg
             /\ pipe' = "running")]_vars

\* C13 witness: a frame Open accepted was turned away by the policy, nothing
\* has reached OBS and the pipe can read on
FailedFrameWitness ==
    /\ last.at > 0 /\ last.opened /\ ~last.allowed
    /\ obsOut = <<>> /\ pipe = "running" /\ nFrames < MaxFrames

\* C14: when the relay delivers a well-formed AgentConfigureMonitor request
\* in a valid envelope, the pipe hands its config to Monitor.Configure and,
\* unless the writer channel is full, queues the op-7 response echoing the
\* request's id.
ConfigureMonitorHandled ==
    [][(RelayRead /\ last'.configure)
         => /\ monCfg' = Append(monCfg, "cfg")
            /\ Len(relaySend) < relaySendCap
                 => relaySend' = Append(relaySend, ConfigureResponse("r1"))]_vars

\* C2: an op-6 AgentConfigureMonitor request that arrived in a valid envelope
\* is never written to the OBS socket.
ConfigureMonitorNeverReachesOBS ==
    \A i \in DOMAIN obsOut : ~IsConfigureMonitor(obsOut[i].payload)

(***************************************************************************)
(* The supervisor: Agent.Start and Agent.run with the session's phases,    *)
(* WaitForSession, backoff, and Agent.Stop running beside them.  Delays    *)
(* are in milliseconds.                                                    *)
(***************************************************************************)
baseDelay == 1000           \* 1 * time.Second
maxDelay == 60000           \* 60 * time.Second
MaxAttempt == 7             \* failed sessions of one Start
JitterSteps == 8            \* rand.Float64() is one of k / JitterSteps, k < JitterSteps
MaxHandshake == 3           \* frames read by one WaitForSession

Nil == "nil"
ErrTokenRejected == "token rejected by relay"

\* delay := base * 2^attempt, capped; delay += delay * 0.25 * (r*2 - 1);
\* time.Duration(delay) truncates
Jittered(d, k) == (d * (3 * JitterSteps + 2 * k)) \div (4 * JitterSteps)
\* mutant of backoff: the cap at maxDelay is missing
backoffUncapped(attempt, k) == Jittered(baseDelay * 2^attempt, k)
backoff(attempt, k) ==
    LET delay == baseDelay * 2^attempt
    IN Jittered(IF delay > maxDelay THEN maxDelay ELSE delay, k)

\* the error of conn.ReadMessage in WaitForSession: a close frame with its
\* code, or (code 0) a timeout or a broken connection
CloseCodes == {0, 1000, 4100}
\* mutant of HandshakeReadError: close code 4100 is not told apart
HandshakeReadErrorGeneric(code) == "session handshake failed"
HandshakeReadError(code) ==
    IF code = 4100 THEN ErrTokenRejected ELSE "session handshake failed"

DeriveSessionKey(token, sessionNonce) == [token |-> token, nonce |-> sessionNonce]
\* var sessionKey []byte before any session message
NilKey == [token |-> "", nonce |-> ""]
Token == "T"
HandshakeFrames ==
    {[type |-> "unparseable", nonce |-> ""], [type |-> "session", nonce |-> ""],
     [type |-> "session", nonce |-> "abcd"], [type |-> "connected", nonce |-> ""],
     [type |-> "update_available", nonce |-> ""], [type |-> "other", nonce |-> ""]}

\* mutant of HandshakeFrame: a connected frame ends the handshake whether or
\* not a session frame came before
HandshakeFrameUnordered(key, f) ==
    IF f.type = "session"
    THEN IF f.nonce = ""
         THEN [key |-> key, ret |-> TRUE, err |-> "session message missing nonce"]
         ELSE [key |-> DeriveSessionKey(Token, f.nonce), ret |-> FALSE, err |-> Nil]
    ELSE IF f.type = "connected"
    THEN [key |-> key, ret |-> TRUE, err |-> Nil]
    ELSE [key |-> key, ret |-> FALSE, err |-> Nil]

\* one frame of WaitForSession's loop: the key held afterwards, whether the
\* function returns and with which error
HandshakeFrame(key, f) ==
    IF f.type = "session"
    THEN IF f.nonce = ""
         THEN [key |-> key, ret |-> TRUE, err |-> "session message missing nonce"]
         ELSE [key |-> DeriveSessionKey(Token, f.nonce), ret |-> FALSE, err |-> Nil]
    ELSE IF f.type = "connected"
    THEN IF key = NilKey
         THEN [key |-> key, ret |-> TRUE, err |-> "received connected before session"]
         ELSE [key |-> key, ret |-> TRUE, err |-> Nil]
    ELSE [key |-> key, ret |-> FALSE, err |-> Nil]

\* run passes ErrTokenRejected through and wraps every other handshake error
RunHandshakeError(err) ==
    IF err = ErrTokenRejected THEN err ELSE "session handshake failed"

\* mutant of BridgeOutcomes: the bridge returns nil when a pipe ends
BridgeOutcomesClean(done) == {Nil}
\* what EnvelopeBridge returns: the first activity's error, or ctx.Err() of
\* the session context, which the ending activity cancels
BridgeOutcomes(done) ==
    {"relay writer closed", "relay->OBS pipe closed", "OBS->relay pipe closed",
     "context canceled"}

\* err.(*tunnel.ErrTokenRejected)
IsTokenRejected(err) == err = ErrTokenRejected

SetStatus(st) == [statusSrv EXCEPT !.status = st]

AgentInit ==
    /\ sup = [pc |-> "top", attempt |-> 0, err |-> Nil, delay |-> 0, hsKey |-> NilKey,
              hsN |-> 0, result |-> Nil]
    /\ ctxDone = FALSE
    /\ statusSrv = [status |-> "starting", obsConn |-> FALSE, relayConn |-> FALSE]
    /\ stopPc = "idle"
    /\ hist = [nFailed |-> 0, closed4100 |-> FALSE, everConnected |-> FALSE,
               doneAtReturn |-> FALSE, stopBefore |-> FALSE]
    /\ CodecIdle /\ BridgeIdle /\ PolicyIdle /\ RoundIdle /\ OtherIdle

AgentRest == <<codecVars, bridgeVars, polVars, cdVars, otherVars>>

\* Start returns r
Return(r) == [sup EXCEPT !.pc = "returned", !.result = r]
Returned ==
    [hist EXCEPT !.doneAtReturn = ctxDone, !.stopBefore = stopPc # "idle"]

\* lines 195-201: the select at the top of the loop
startTop ==
    /\ sup.pc = "top"
    /\ IF ctxDone
       THEN /\ statusSrv' = SetStatus("stopped")
            /\ sup' = Return(Nil)
            /\ hist' = Returned
       ELSE /\ sup.attempt < MaxAttempt
            /\ sup' = [sup EXCEPT !.pc = "connecting_obs"]
            /\ UNCHANGED <<statusSrv, hist>>
    /\ UNCHANGED <<ctxDone, stopPc, AgentRest>>

\* line 247
runStatusOBS ==
    /\ sup.pc = "connecting_obs"
    /\ statusSrv' = SetStatus("connecting_obs")
    /\ sup' = [sup EXCEPT !.pc = "dial_obs"]
    /\ UNCHANGED <<ctxDone, stopPc, hist, AgentRest>>

\* lines 250-256: obs.Connect dials with the agent's context and authenticates
runDialOBS ==
    /\ sup.pc = "dial_obs"
    /\ \/ /\ ~ctxDone
          /\ statusSrv' = [statusSrv EXCEPT !.obsConn = TRUE]
          /\ sup' = [sup EXCEPT !.pc = "connecting_relay"]
       \/ /\ sup' = [sup EXCEPT !.pc = "check", !.err = "OBS connection failed"]
          /\ UNCHANGED statusSrv
    /\ UNCHANGED <<ctxDone, stopPc, hist, AgentRest>>

\* line 259
runStatusRelay ==
    /\ sup.pc = "connecting_relay"
    /\ statusSrv' = SetStatus("connecting_relay")
    /\ sup' = [sup EXCEPT !.pc = "dial_relay"]
    /\ UNCHANGED <<ctxDone, stopPc, hist, AgentRest>>

\* lines 261-267: tunnel.Connect
runDialRelay ==
    /\ sup.pc = "dial_relay"
    /\ \/ /\ ~ctxDone
          /\ statusSrv' = [statusSrv EXCEPT !.relayConn = TRUE]
          /\ sup' = [sup EXCEPT !.pc = "handshake", !.hsKey = NilKey, !.hsN = 0]
       \/ /\ sup' = [sup EXCEPT !.pc = "check", !.err = "relay connection failed"]
          /\ UNCHANGED statusSrv
    /\ UNCHANGED <<ctxDone, stopPc, hist, AgentRest>>

\* one iteration of WaitForSession's loop, and run's lines 270-277 when it
\* returns
WaitForSession ==
    /\ sup.pc = "handshake"
    /\ \/ \E code \in CloseCodes :
            /\ sup' = [sup EXCEPT !.pc = "check",
                                  !.err = RunHandshakeError(HandshakeReadError(code))]
            /\ hist' = [hist EXCEPT !.closed4100 = @ \/ code = 4100]
       \/ /\ sup.hsN < MaxHandshake
          /\ \E f \in HandshakeFrames :
               LET r == HandshakeFrame(sup.hsKey, f)
               IN sup' = [sup EXCEPT !.hsN = @ + 1, !.hsKey = r.key,
                            !.err = IF r.ret /\ r.err # Nil
                                    THEN RunHandshakeError(r.err) ELSE @,
                            !.pc = IF ~r.ret THEN "handshake"
                                   ELSE IF r.err = Nil THEN "status_connected"
                                   ELSE "check"]
          /\ UNCHANGED hist
    /\ UNCHANGED <<ctxDone, statusSrv, stopPc, AgentRest>>

\* lines 280-281
runStatusConnected ==
    /\ sup.pc = "status_connected"
    /\ statusSrv' = SetStatus("connected")
    /\ sup' = [sup EXCEPT !.pc = "bridge"]
    /\ hist' = [hist EXCEPT !.everConnected = TRUE]
    /\ UNCHANGED <<ctxDone, stopPc, AgentRest>>

\* line 283: EnvelopeBridge returns
runBridge ==
    /\ sup.pc = "bridge"
    /\ \E e \in BridgeOutcomes(ctxDone) : sup' = [sup EXCEPT !.pc = "check", !.err = e]
    /\ UNCHANGED <<ctxDone, statusSrv, stopPc, hist, AgentRest>>

\* lines 203-213: run has returned
startCheck ==
    /\ sup.pc = "check"
    /\ IF sup.err = Nil \/ ctxDone
       THEN /\ statusSrv' = SetStatus("stopped")
            /\ sup' = Return(Nil)
            /\ hist' = [Returned EXCEPT !.nFailed = IF sup.err = Nil THEN @ ELSE @ + 1]
       ELSE /\ sup' = [sup EXCEPT !.pc = "count"]
            /\ hist' = [hist EXCEPT !.nFailed = @ + 1]
            /\ UNCHANGED statusSrv
    /\ UNCHANGED <<ctxDone, stopPc, AgentRest>>

\* lines 215-218
startCount ==
    /\ sup.pc = "count"
    /\ sup' = [sup EXCEPT !.pc = "classify", !.attempt = @ + 1]
    /\ statusSrv' = [status |-> "reconnecting", obsConn |-> FALSE, relayConn |-> FALSE]
    /\ UNCHANGED <<ctxDone, stopPc, hist, AgentRest>>

\* lines 220-230
startClassify ==
    /\ sup.pc = "classify"
    /\ IF IsTokenRejected(sup.err)
       THEN /\ statusSrv' = SetStatus("token_rejected")
            /\ sup' = Return(sup.err)
            /\ hist' = Returned
       ELSE /\ \E k \in 0..(JitterSteps - 1) :
                 sup' = [sup EXCEPT !.pc = "sleep", !.delay = backoff(sup.attempt, k)]
            /\ UNCHANGED <<statusSrv, hist>>
    /\ UNCHANGED <<ctxDone, stopPc, AgentRest>>

\* lines 232-236: the delay elapses, or the context is done
startSleep ==
    /\ sup.pc = "sleep"
    /\ \/ /\ sup' = [sup EXCEPT !.pc = "top"]
          /\ UNCHANGED hist
       \/ /\ ctxDone
          /\ sup' = Return(Nil)
          /\ hist' = Returned
    /\ UNCHANGED <<ctxDone, statusSrv, stopPc, AgentRest>>

\* Agent.Stop, line 288
stopStatus ==
    /\ stopPc = "idle"
    /\ statusSrv' = SetStatus("stopped")
    /\ stopPc' = "cancel"
    /\ UNCHANGED <<sup, ctxDone, hist, AgentRest>>

\* Agent.Stop, line 289
stopCancel ==
    /\ stopPc = "cancel"
    /\ ctxDone' = TRUE
    /\ stopPc' = "wait"
    /\ UNCHANGED <<sup, statusSrv, hist, AgentRest>>

\* Agent.Stop, line 290: nothing was added to the wait group
stopWait ==
    /\ stopPc = "wait"
    /\ stopPc' = "done"
    /\ UNCHANGED <<sup, ctxDone, statusSrv, hist, AgentRest>>

AgentNext ==
    \/ startTop \/ runStatusOBS \/ runDialOBS \/ runStatusRelay \/ runDialRelay
    \/ WaitForSession \/ runStatusConnected \/ runBridge
    \/ startCheck \/ startCount \/ startClassify \/ startSleep
    \/ stopStatus \/ stopCancel \/ stopWait

SpecAgent == AgentInit /\ [][AgentNext]_vars

\* C15: once the relay has closed the handshake with code 4100, the
\* session's error is ErrTokenRejected and Start only classifies it and
\* returns: it never sleeps a backoff or begins another run; when it has
\* returned with the context still live its result is that error, and until
\* Stop writes, the status is token_rejected.
TokenRejectedIsTerminal ==
    hist.closed4100 =>
        /\ sup.err = ErrTokenRejected
        /\ sup.pc \in {"check", "count", "classify", "returned"}
        /\ (sup.pc = "returned" /\ ~ctxDone => sup.result = ErrTokenRejected)
        /\ (sup.pc = "returned" /\ stopPc = "idle" =>
                statusSrv.status = "token_rejected")
\* a second or later session is closed with 4100 and Start has returned
TokenRejectedWitness ==
    /\ hist.closed4100 /\ sup.pc = "returned" /\ sup.attempt >= 2
    /\ sup.result = ErrTokenRejected /\ statusSrv.status = "token_rejected"

\* C16: Start has returned only with the context cancelled or with the token
\* rejection; a session never ends without an error, and after an error
\* that is not the token rejection, with the context live, the only steps of
\* Start are: count the failure, draw the delay, sleep, and begin a new
\* session, whatever the number of failures so far.
OnlyTokenOrCancelTerminal ==
    /\ [](sup.pc = "returned" => hist.doneAtReturn \/ sup.result = ErrTokenRejected)
    /\ [](sup.pc \in {"check", "count", "classify"} => sup.err # Nil)
    /\ [][sup.pc = "check" /\ ~ctxDone /\ sup' # sup => sup'.pc = "count"]_vars
    /\ [][sup.pc = "count" /\ sup' # sup =>
            sup'.pc = "classify" /\ sup'.attempt = sup.attempt + 1]_vars
    /\ [][sup.pc = "classify" /\ ~IsTokenRejected(sup.err) /\ sup' # sup =>
            sup'.pc = "sleep"]_vars
    /\ [][sup.pc = "sleep" /\ ~ctxDone /\ sup' # sup => sup'.pc = "top"]_vars
    /\ [][sup.pc = "top" /\ ~ctxDone /\ sup' # sup => sup'.pc = "connecting_obs"]_vars
\* a new session begins after three failures, one of them a bridge that ended
OnlyTokenOrCancelWitness ==
    /\ sup.pc = "connecting_obs" /\ sup.attempt >= 3 /\ hist.everConnected
    /\ ~ctxDone /\ sup.err \in BridgeOutcomes(FALSE)

FirstDelaysOneTwoFour ==
    sup.pc = "sleep" /\ hist.nFailed <= 3 =>
        LET B == baseDelay * 2^(hist.nFailed - 1)
        IN 3 * B <= 4 * sup.delay /\ 4 * sup.delay <= 5 * B

\* C19: when Start returns with the context cancelled, it returns nil,
\* whatever error the session ended with.
CancelWinsExit ==
    sup.pc = "returned" /\ hist.doneAtReturn => sup.result = Nil

\* C20: once Start has returned nil, which it does only because of the
\* cancellation, the status is "stopped".
StoppedAfterCancel ==
    sup.pc = "returned" /\ sup.result = Nil => statusSrv.status = "stopped"

\* C22: when Agent.Stop has returned, Start's supervision loop has returned.
StopJoinsStart ==
    stopPc = "done" => sup.pc = "returned"

(***************************************************************************)
(* The instance lock: Acquire and Lock.Release of several processes on the *)
(* lock file of one directory.  The file system keeps an inode alive while  *)
(* a descriptor is open on it, whether or not a name still leads to it;     *)
(* flock locks the inode.                                                   *)
(***************************************************************************)
Procs == {"p1", "p2", "p3"}
MaxInodes == 3              \* lock files created in one run
NoFile == 0

LockInit ==
    /\ lk = [path |-> NoFile, made |-> 0,
             flock |-> [i \in 1..MaxInodes |-> None],
             proc |-> [p \in Procs |-> [pc |-> "idle", fd |-> NoFile]]]
    /\ CodecIdle /\ BridgeIdle /\ PolicyIdle /\ RoundIdle /\ AgentIdle
    /\ ses = None /\ mon = None /\ wq = None /\ ExtraIdle

LockRest == <<codecVars, bridgeVars, polVars, cdVars, agentVars, ses, mon, wq, extraVars>>

\* the processes that hold the instance lock: Acquire has returned a Lock
\* and Release has not been called on it
Holders == {p \in Procs : lk.proc[p].pc = "held"}

\* tryLock, os.OpenFile(path, O_CREATE|O_RDWR): opens the file the name
\* leads to, creating it when there is none
tryLockOpen(p) ==
    /\ lk.proc[p].pc = "idle"
    /\ IF lk.path = NoFile
       THEN /\ lk.made < MaxInodes
            /\ lk' = [lk EXCEPT !.made = @ + 1, !.path = lk.made + 1,
                                !.proc[p] = [pc |-> "opened", fd |-> lk.made + 1]]
       ELSE lk' = [lk EXCEPT !.proc[p] = [pc |-> "opened", fd |-> lk.path]]
    /\ UNCHANGED LockRest

\* tryLock, syscall.Flock(LOCK_EX|LOCK_NB), and Acquire's return: the lock
\* is taken when no descriptor holds one on the inode, else the file is
\* closed and Acquire fails
tryLockFlock(p) ==
    /\ lk.proc[p].pc = "opened"
    /\ IF lk.flock[lk.proc[p].fd] = None
       THEN lk' = [lk EXCEPT !.flock[lk.proc[p].fd] = p, !.proc[p].pc = "held"]
       ELSE lk' = [lk EXCEPT !.proc[p] = [pc |-> "idle", fd |-> NoFile]]
    /\ UNCHANGED LockRest

\* Release, unlock(l.fd): LOCK_UN and Close
ReleaseUnlock(p) ==
    /\ lk.proc[p].pc = "held"
    /\ lk' = [lk EXCEPT !.flock[lk.proc[p].fd] = None,
                        !.proc[p] = [pc |-> "unlocked", fd |-> NoFile]]
    /\ UNCHANGED LockRest

\* Release, os.Remove(l.path): the name is removed, whatever file it leads to
ReleaseRemove(p) ==
    /\ lk.proc[p].pc = "unlocked"
    /\ lk' = [lk EXCEPT !.path = NoFile, !.proc[p].pc = "idle"]
    /\ UNCHANGED LockRest

LockNext ==
    \E p \in Procs :
        \/ tryLockOpen(p) \/ tryLockFlock(p) \/ ReleaseUnlock(p) \/ ReleaseRemove(p)

SpecLock == LockInit /\ [][LockNext]_vars

\* C29: at most one process holds the instance lock of the directory.
AtMostOneHolder ==
    Cardinality(Holders) <= 1

(***************************************************************************)
(* monitor.Monitor: Configure and Stop under the mutex, stopLocked, and    *)
(* the poll loop with its ticks.  Time is in units of 30 s, the life of    *)
(* the scene map.  Configure is called by the relay-to-OBS pipe ("pipe"),  *)
(* Stop by EnvelopeBridge on its way out ("main").                          *)
(***************************************************************************)
MaxMonClock == 2            \* 30 s periods the monitor lives through
MaxCalls == 3               \* calls of Configure and Stop

Callers == {"pipe", "main"}
MonConfigs ==
    {[Source |-> "cam", PollIntervalMs |-> 1000, Enabled |-> TRUE],
     [Source |-> "cam", PollIntervalMs |-> 1000, Enabled |-> FALSE],
     [Source |-> "", PollIntervalMs |-> 1000, Enabled |-> TRUE],
     [Source |-> "mic", PollIntervalMs |-> 1000, Enabled |-> TRUE]}
NoConfig == [Source |-> "", PollIntervalMs |-> 0, Enabled |-> FALSE]

\* what the monitor's OBS connection answers to GetMediaInputStatus: an
\* error (write, read, no matching response), a response without
\* responseData, one without a mediaState string, or a mediaState
MediaStates ==
    {"OBS_MEDIA_STATE_PLAYING", "OBS_MEDIA_STATE_BUFFERING", "OBS_MEDIA_STATE_NONE",
     "OBS_MEDIA_STATE_PAUSED"}
PollAnswers == {"error", "no responseData", "no mediaState"} \cup MediaStates

pollOBS(answer) ==
    IF answer = "error" THEN [err |-> TRUE, mediaState |-> ""]
    ELSE IF answer \in {"no responseData", "no mediaState"}
    THEN [err |-> FALSE, mediaState |-> "OBS_MEDIA_STATE_NONE"]
    ELSE [err |-> FALSE, mediaState |-> answer]

\* mediaStateMap[mediaState], "" for a key the map does not hold
mediaStateMap(mediaState) ==
    IF mediaState = "OBS_MEDIA_STATE_PLAYING" THEN "normal"
    ELSE IF mediaState \in {"OBS_MEDIA_STATE_OPENING", "OBS_MEDIA_STATE_BUFFERING",
                            "OBS_MEDIA_STATE_ENDED", "OBS_MEDIA_STATE_ERROR",
                            "OBS_MEDIA_STATE_STOPPED", "OBS_MEDIA_STATE_NONE"}
    THEN "buffering"
    ELSE ""

\* pollLoop, lines 162-165
StateOf(mediaState) ==
    IF mediaStateMap(mediaState) = "" THEN "offline" ELSE mediaStateMap(mediaState)

\* the op-5 event sendState builds
StateEvent(inputName, mediaState, state, containingScene) ==
    [inputName |-> inputName, mediaState |-> mediaState, state |-> state,
     containingScene |-> containingScene]
NoEvent == StateEvent("", "", "", "")

NoLoop == [pc |-> "none", done |-> FALSE, conn |-> FALSE, source |-> "",
           pending |-> NoEvent]
NoCaller == [op |-> "none", pc |-> "idle", cfg |-> NoConfig]
\* history of the tick in progress: whether it dialled, what the scene-map
\* refresh did, what OBS answered, whether its event went to the callback
NoTick == [dialled |-> "no", refresh |-> "none", answer |-> "none", sent |-> FALSE]

\* what GetSceneList of refreshSceneMap may meet
SceneAnswers == {"failed", "no scenes", "rebuilt"}

\* monitor.New and SetSendEvent; answers and scenes are what the OBS of this
\* run may answer to a poll and to GetSceneList, horizon is how long the run
\* is followed
NewMonitor(answers, scenes, horizon) ==
    [answers |-> answers, scenes |-> scenes, horizon |-> horizon, mu |-> "free", pollCancel |-> FALSE, pollDone |-> "nil", config |-> NoConfig,
     sendEvent |-> TRUE, sceneMap |-> "nil", sceneMapAt |-> -1000,
     loop |-> NoLoop, call |-> [c \in Callers |-> NoCaller],
     now |-> 0, nCalls |-> 0, closedOnce |-> FALSE, tick |-> NoTick,
     last |-> "none"]        \* the call that returned last: Stop, disabled, enabled

MonRest == <<codecVars, bridgeVars, polVars, cdVars, agentVars, wq, lk, extraVars>>
\* a step of the monitor leaves the rest alone
MonitorOnly == UNCHANGED <<MonRest, ses>>

\* time passes
monClock ==
    /\ mon.now < mon.horizon
    /\ mon' = [mon EXCEPT !.now = @ + 1]
    /\ MonitorOnly

\* caller c enters Configure(cfg) or Stop()
CallBegin(c, op, cfg) ==
    /\ mon.call[c].pc = "idle"
    /\ mon' = [mon EXCEPT !.call[c] = [op |-> op, pc |-> "lock", cfg |-> cfg],
                          !.nCalls = @ + 1]

\* m.mu.Lock() of Configure and Stop
callLock(c) ==
    /\ mon.call[c].pc = "lock"
    /\ mon.mu = "free"
    /\ mon' = [mon EXCEPT !.mu = c, !.call[c].pc = "stopLocked"]
    /\ MonitorOnly

\* mutant of callStopLocked: the poll loop is cancelled but not waited for
callStopLockedNoWait(c) ==
    /\ mon.call[c].pc = "stopLocked"
    /\ IF mon.pollCancel
       THEN mon' = [mon EXCEPT !.loop.done = TRUE, !.pollCancel = FALSE,
                               !.pollDone = "nil", !.call[c].pc = "finish"]
       ELSE mon' = [mon EXCEPT !.call[c].pc = "finish"]
    /\ MonitorOnly

\* stopLocked up to its receive: lines 103-107
callStopLocked(c) ==
    /\ mon.call[c].pc = "stopLocked"
    /\ IF mon.pollCancel
       THEN mon' = [mon EXCEPT !.loop.done = TRUE, !.pollCancel = FALSE,
                        !.call[c].pc = IF mon.pollDone # "nil" THEN "wait" ELSE "finish"]
       ELSE mon' = [mon EXCEPT !.call[c].pc = "finish"]
    /\ MonitorOnly

\* <-m.pollDone, lines 108-109
callWait(c) ==
    /\ mon.call[c].pc = "wait"
    /\ mon.pollDone = "closed"
    /\ mon' = [mon EXCEPT !.pollDone = "nil", !.call[c].pc = "finish"]
    /\ MonitorOnly

\* what callFinish does once the lock is released and the caller is back
Unlocked(c) == [mon EXCEPT !.mu = "free", !.call[c] = NoCaller]

\* mutant of callFinish: Configure starts a poll loop whatever the config
callFinishAlways(c) ==
    /\ mon.call[c].pc = "finish"
    /\ LET cfg == mon.call[c].cfg
       IN IF mon.call[c].op = "Stop"
          THEN mon' = [Unlocked(c) EXCEPT !.last = "Stop"]
          ELSE mon' = [Unlocked(c) EXCEPT
                         !.config = cfg, !.pollCancel = TRUE, !.pollDone = "open",
                         !.loop = [NoLoop EXCEPT !.pc = "select", !.source = cfg.Source],
                         !.tick = NoTick,
                         !.last = IF ~cfg.Enabled \/ cfg.Source = ""
                                  THEN "disabled" ELSE "enabled"]
    /\ MonitorOnly

\* the rest of Configure (lines 74-93) or of Stop, and the deferred Unlock
callFinish(c) ==
    /\ mon.call[c].pc = "finish"
    /\ LET cfg == mon.call[c].cfg
       IN IF mon.call[c].op = "Stop"
          THEN mon' = [Unlocked(c) EXCEPT !.last = "Stop"]
          ELSE IF ~cfg.Enabled \/ cfg.Source = ""
          THEN mon' = [Unlocked(c) EXCEPT !.config = cfg, !.last = "disabled"]
          ELSE mon' = [Unlocked(c) EXCEPT
                         !.config = cfg, !.pollCancel = TRUE, !.pollDone = "open",
                         !.loop = [NoLoop EXCEPT !.pc = "select", !.source = cfg.Source],
                         !.tick = NoTick, !.last = "enabled"]
    /\ MonitorOnly

\* pollLoop's select: the context is done and the loop leaves, running its
\* deferred calls, or the ticker has fired; both can be ready
loopExit ==
    /\ mon.loop.pc = "select"
    /\ mon.loop.done
    /\ mon' = [mon EXCEPT !.loop.pc = "exited", !.loop.conn = FALSE, !.pollDone = "closed"]
    /\ MonitorOnly

loopTick ==
    /\ mon.loop.pc = "select"
    /\ mon' = [mon EXCEPT !.loop.pc = "connect", !.loop.pending = NoEvent, !.tick = NoTick]
    /\ MonitorOnly

loopSelect == loopExit \/ loopTick

\* lines 135-144: obs.ConnectMonitor when there is no connection
loopConnect ==
    /\ mon.loop.pc = "connect"
    /\ IF mon.loop.conn
       THEN mon' = [mon EXCEPT !.loop.pc = "refresh"]
       ELSE \/ /\ ~mon.loop.done
               /\ mon' = [mon EXCEPT !.loop.pc = "refresh", !.loop.conn = TRUE,
                             !.tick.dialled = IF mon.closedOnce THEN "again" ELSE "first"]
            \/ mon' = [mon EXCEPT !.loop.pc = "sendState", !.tick.dialled = "failed",
                          !.loop.pending = StateEvent(mon.loop.source, "", "offline", "")]
    /\ MonitorOnly

\* refreshSceneMap: nothing while the map is younger than 30 s; else
\* GetSceneList fails, or lists no scene, or the map is rebuilt
refreshSceneMap ==
    /\ mon.loop.pc = "refresh"
    /\ IF mon.now - mon.sceneMapAt < 1 /\ mon.sceneMap # "nil"
       THEN mon' = [mon EXCEPT !.loop.pc = "poll", !.tick.refresh = "cached"]
       ELSE \E r \in mon.scenes :
              IF r = "rebuilt"
              THEN mon' = [mon EXCEPT !.loop.pc = "poll", !.tick.refresh = r,
                              !.sceneMap = "map", !.sceneMapAt = mon.now]
              ELSE mon' = [mon EXCEPT !.loop.pc = "poll", !.tick.refresh = r]
    /\ MonitorOnly

\* lines 148-166: pollOBS and the state that goes into the event
loopPoll ==
    /\ mon.loop.pc = "poll"
    /\ \E answer \in mon.answers :
         LET r == pollOBS(answer)
             containingScene == IF mon.sceneMap = "nil" THEN "" ELSE "scene"
         IN IF r.err
            THEN mon' = [mon EXCEPT !.loop.pc = "sendState", !.loop.conn = FALSE,
                            !.closedOnce = TRUE, !.tick.answer = answer,
                            !.loop.pending =
                                StateEvent(mon.loop.source, "", "offline", containingScene)]
            ELSE mon' = [mon EXCEPT !.loop.pc = "sendState", !.tick.answer = answer,
                            !.loop.pending =
                                StateEvent(mon.loop.source, r.mediaState,
                                           StateOf(r.mediaState), containingScene)]
    /\ MonitorOnly

\* sendState, lines 338-340: takes the mutex to read the callback and
\* releases it
sendState ==
    /\ mon.loop.pc = "sendState"
    /\ mon.mu = "free"
    /\ mon' = [mon EXCEPT !.loop.pc = "callback"]
    /\ MonitorOnly

\* sendState, lines 342-366: builds the event and calls the callback with it
sendStateCall ==
    /\ mon.loop.pc = "callback"
    /\ mon' = [mon EXCEPT !.loop.pc = "select", !.tick.sent = mon.sendEvent]
    /\ MonitorOnly

MonitorInit ==
    /\ mon = NewMonitor(PollAnswers, SceneAnswers, MaxMonClock)
    /\ CodecIdle /\ BridgeIdle /\ PolicyIdle /\ RoundIdle /\ AgentIdle
    /\ ses = None /\ wq = None /\ lk = None /\ ExtraIdle

\* pipeRelayToOBS, line 184
callConfigure ==
    /\ mon.nCalls < MaxCalls
    /\ \E cfg \in MonConfigs : CallBegin("pipe", "Configure", cfg)
    /\ MonitorOnly

\* EnvelopeBridge, line 52
callStop ==
    /\ mon.nCalls < MaxCalls
    /\ CallBegin("main", "Stop", NoConfig)
    /\ MonitorOnly

MonitorSteps ==
    \/ monClock
    \/ \E c \in Callers : callLock(c) \/ callStopLocked(c) \/ callWait(c) \/ callFinish(c)
    \/ loopSelect \/ loopConnect \/ refreshSceneMap \/ loopPoll \/ sendState
    \/ sendStateCall

MonitorNext == callConfigure \/ callStop \/ MonitorSteps

SpecMonitor == MonitorInit /\ [][MonitorNext]_vars

\* the scheduler lets every goroutine that can take a step take one: each
\* step of a caller inside Configure or Stop, each step of the poll loop;
\* a select whose context is done again and again is not lost to the ticker
\* for ever
MonitorFairness ==
    /\ WF_vars(callLock("pipe")) /\ WF_vars(callLock("main"))
    /\ WF_vars(callStopLocked("pipe"))
    /\ WF_vars(callStopLocked("main"))
    /\ WF_vars(callWait("pipe")) /\ WF_vars(callWait("main"))
    /\ WF_vars(callFinish("pipe"))
    /\ WF_vars(callFinish("main"))
    /\ SF_vars(loopExit) /\ WF_vars(loopSelect)
    /\ WF_vars(loopConnect) /\ WF_vars(refreshSceneMap)
    /\ WF_vars(loopPoll) /\ WF_vars(sendState) /\ WF_vars(sendStateCall)

SpecMonitorFair == SpecMonitor /\ MonitorFairness

\* C23: every call of Configure and of Stop returns, and when a call is past
\* stopLocked the poll loop it found has terminated.
CallsReturn ==
    /\ (mon.call["pipe"].pc # "idle") ~> (mon.call["pipe"].pc = "idle")
    /\ (mon.call["main"].pc # "idle") ~> (mon.call["main"].pc = "idle")
    /\ [](\A c \in Callers :
            mon.call[c].pc = "finish" => mon.loop.pc \in {"none", "exited"})

\* C24: the state in the event a tick has handed to the callback is
\* "offline" when the connection could not be made, the request failed or
\* the response carried no mediaState, "normal" when OBS returned
\* OBS_MEDIA_STATE_PLAYING, and "buffering" for every other returned value.
EmittedStateFollowsMediaState ==
    mon.loop.pc = "select" /\ mon.tick.sent =>
        mon.loop.pending.state =
            IF mon.tick.dialled = "failed"
                 \/ mon.tick.answer \in {"error", "no responseData", "no mediaState"}
            THEN "offline"
            ELSE IF mon.tick.answer = "OBS_MEDIA_STATE_PLAYING" THEN "normal"
            ELSE "buffering"

\* C30: on a tick that has dialled the polling connection again after it was
\* closed, refreshSceneMap does not rely on the cached map: the map is
\* rebuilt, unless OBS fails to list its scenes.
ReconnectRebuildsSceneMap ==
    mon.loop.pc = "poll" /\ mon.tick.dialled = "again" => mon.tick.refresh # "cached"

(***************************************************************************)
(* EnvelopeBridge: the function's own goroutine ("main"), the relay        *)
(* writer, the two pipes and the ping timer, the error channel, the        *)
(* session context derived from the supervisor's, the monitor of the       *)
(* session, and the deferred closes of Agent.run.                          *)
(***************************************************************************)
MaxConfigures == 1          \* AgentConfigureMonitor requests of one session
Acts == {"writer", "r2o", "o2r"}
Cause(a) ==
    IF a = "writer" THEN "relay writer closed"
    ELSE IF a = "r2o" THEN "relay->OBS pipe closed" ELSE "OBS->relay pipe closed"
\* fmt.Errorf("<cause>: %w", err), and the bare ctx.Err()
Wrapped(a, err) == [cause |-> Cause(a), err |-> err]
Canceled == [cause |-> "", err |-> "context canceled"]
NoResult == [cause |-> "", err |-> ""]

\* the error an activity returns when its socket fails
OwnError(a) ==
    IF a = "writer" THEN "relay write error"
    ELSE IF a = "r2o" THEN "relay read error" ELSE "OBS read error"

NewSession ==
    [main |-> "spawn", result |-> NoResult, inner |-> FALSE, outer |-> FALSE,
     errCh |-> <<>>, act |-> [a \in Acts |-> "none"], ping |-> "none",
     relayClosed |-> FALSE, obsClosed |-> FALSE,
     first |-> NoResult, cancelledRunning |-> FALSE]

SessionInit ==
    /\ ses = NewSession
    /\ mon = NewMonitor({"error", "OBS_MEDIA_STATE_PLAYING"}, {"rebuilt"}, 1)
    /\ CodecIdle /\ BridgeIdle /\ PolicyIdle /\ RoundIdle /\ AgentIdle
    /\ wq = None /\ lk = None /\ ExtraIdle

\* the select of lines 93-98 completes for the goroutine blocked in it
Wake(s, r) ==
    IF s.main = "blocked" THEN [s EXCEPT !.main = "stop", !.result = r] ELSE s

\* lines 55-91: the four goroutines are started
bridgeSpawn ==
    /\ ses.main = "spawn"
    /\ ses' = [ses EXCEPT !.main = "enter", !.ping = "running",
                          !.act = [a \in Acts |-> "running"]]
    /\ UNCHANGED <<mon, MonRest>>

\* lines 93-98: the select is entered; a case that is ready is taken, any
\* of them when both are, and with none ready the goroutine blocks
bridgeSelect ==
    /\ ses.main = "enter"
    /\ \/ /\ ses.errCh # <<>>
          /\ ses' = [ses EXCEPT !.main = "stop", !.result = Head(ses.errCh),
                                !.errCh = Tail(ses.errCh)]
       \/ /\ ses.inner
          /\ ses' = [ses EXCEPT !.main = "stop", !.result = Canceled]
       \/ /\ ses.errCh = <<>> /\ ~ses.inner
          /\ ses' = [ses EXCEPT !.main = "blocked"]
    /\ UNCHANGED <<mon, MonRest>>

\* the goroutine of activity a from the return of its function: the error
\* is wrapped and sent on errCh, which has room for all three (a goroutine
\* blocked in the select receives it at once), then the deferred cancel()
ActEnds(a, err) ==
    LET e == Wrapped(a, err)
        s == [ses EXCEPT !.act[a] = "done", !.inner = TRUE,
                         !.first = IF @ = NoResult THEN e ELSE @]
    IN IF ses.main = "blocked" THEN Wake(s, e)
       ELSE [s EXCEPT !.errCh = Append(@, e)]

\* an activity's socket operation fails
actFail(a) ==
    /\ ses.act[a] = "running"
    /\ ses' = ActEnds(a, OwnError(a))
    /\ UNCHANGED <<mon, MonRest>>

\* a pipe finds the session context done at the top of its loop
pipeCtxDone(a) ==
    /\ a # "writer"
    /\ ses.act[a] = "running"
    /\ ses.inner
    /\ ses' = ActEnds(a, "context canceled")
    /\ UNCHANGED <<mon, MonRest>>

\* what ends an activity for certain: the writer's select sees the session
\* context done; a pipe's ReadMessage fails on the socket Agent.run closed
actUnblock(a) ==
    /\ ses.act[a] = "running"
    /\ IF a = "writer"
       THEN ses.inner /\ ses' = ActEnds(a, "context canceled")
       ELSE IF a = "r2o"
       THEN ses.relayClosed /\ ses' = ActEnds(a, OwnError(a))
       ELSE ses.obsClosed /\ ses' = ActEnds(a, OwnError(a))
    /\ UNCHANGED <<mon, MonRest>>

\* lines 87-88
pingExit ==
    /\ ses.ping = "running"
    /\ ses.inner
    /\ ses' = [ses EXCEPT !.ping = "done"]
    /\ UNCHANGED <<mon, MonRest>>

\* the supervisor's context is cancelled while the bridge runs: Agent.cancel()
supCancel ==
    /\ ~ses.outer
    /\ ses.main \in {"enter", "blocked"}
    /\ ses' = Wake([ses EXCEPT !.outer = TRUE, !.inner = TRUE,
                               !.cancelledRunning = TRUE], Canceled)
    /\ UNCHANGED <<mon, MonRest>>

\* pipeRelayToOBS, line 184: the interception calls mon.Configure(cfg)
r2oConfigure ==
    /\ ses.act["r2o"] = "running"
    /\ mon.nCalls < MaxConfigures
    /\ \E cfg \in MonConfigs : CallBegin("pipe", "Configure", cfg)
    /\ ses' = [ses EXCEPT !.act["r2o"] = "configuring"]
    /\ UNCHANGED MonRest

\* mon.Configure has returned
r2oConfigured ==
    /\ ses.act["r2o"] = "configuring"
    /\ mon.call["pipe"].pc = "idle"
    /\ ses' = [ses EXCEPT !.act["r2o"] = "running"]
    /\ UNCHANGED <<mon, MonRest>>

\* EnvelopeBridge returns: the deferred mon.Stop() of line 52 runs first
bridgeStop ==
    /\ ses.main = "stop"
    /\ CallBegin("main", "Stop", NoConfig)
    /\ ses' = [ses EXCEPT !.main = "stopping"]
    /\ UNCHANGED MonRest

\* mon.Stop() has returned; the deferred cancel() of line 35 runs and
\* EnvelopeBridge is back in Agent.run
bridgeReturn ==
    /\ ses.main = "stopping"
    /\ mon.call["main"].pc = "idle"
    /\ ses' = [ses EXCEPT !.main = "returned", !.inner = TRUE]
    /\ UNCHANGED <<mon, MonRest>>

\* Agent.run returns: its deferred relayConn.Close() and obsConn.Close()
runClose ==
    /\ ses.main = "returned"
    /\ ses' = [ses EXCEPT !.main = "closed", !.relayClosed = TRUE, !.obsClosed = TRUE]
    /\ UNCHANGED <<mon, MonRest>>

SessionNext ==
    \/ bridgeSpawn \/ bridgeSelect
    \/ \E a \in Acts : actFail(a) \/ pipeCtxDone(a) \/ actUnblock(a)
    \/ pingExit \/ supCancel \/ r2oConfigure \/ r2oConfigured
    \/ bridgeStop \/ bridgeReturn \/ runClose
    \/ MonitorSteps

SpecSession == SessionInit /\ [][SessionNext]_vars

\* every goroutine of the session and of its monitor takes the steps it can
\* take; the failure of a socket that nobody closed is not among them
SessionFairness ==
    /\ WF_vars(bridgeSpawn) /\ WF_vars(bridgeSelect)
    /\ WF_vars(actUnblock("writer")) /\ WF_vars(actUnblock("r2o"))
    /\ WF_vars(actUnblock("o2r"))
    /\ WF_vars(pingExit) /\ WF_vars(r2oConfigured)
    /\ WF_vars(bridgeStop) /\ WF_vars(bridgeReturn) /\ WF_vars(runClose)
    /\ MonitorFairness

SpecSessionFair == SpecSession /\ SessionFairness

\* every activity of the session has terminated and the sockets are closed
SessionOver ==
    /\ ses.main = "closed" /\ ses.relayClosed /\ ses.obsClosed
    /\ \A a \in Acts : ses.act[a] = "done"
    /\ ses.ping = "done"
    /\ mon.loop.pc \in {"none", "exited"}

BridgeReturnsFirstError ==
    ses.main \in {"stop", "stopping", "returned", "closed"} /\ ~ses.outer =>
        ses.result # Canceled /\ ses.result = ses.first

\* lemma: as long as no poll loop was started, the cancelled session ends
CancelEndsSessionWithoutLoop ==
    (ses.cancelledRunning /\ mon.loop.pc = "none") ~> (SessionOver \/ mon.loop.pc # "none")

(***************************************************************************)
(* The writer channel with its producers and its consumer, and the two     *)
(* directions of one session, with the history of what each socket         *)
(* delivered and received: which frame of its source every queued item and *)
(* every write stems from.                                                 *)
(***************************************************************************)
MaxQueueSteps == 4          \* frames read, events and pings of one session

WqRest == <<bridgeVars, polVars, cdVars, agentVars, ses, mon, lk, extraVars>>

\* the frames OBS delivers: an event, a response, a request (which the
\* outbound policy turns away), each as text, and a binary frame
ObsFrames ==
    {[text |-> TRUE, data |-> d] : d \in {EventMsg, ResponseMsg, GetVersionMsg}}
    \cup {[text |-> FALSE, data |-> NotMsg("garbage")]}

\* an item of the writer channel: the payload, and where it stems from
Item(src, at, payload) == [src |-> src, at |-> at, payload |-> payload]

NewQueue ==
    [ch |-> <<>>,            \* relaySend
     obsRead |-> <<>>,       \* frames obs.ReadMessage returned
     relayRead |-> <<>>,     \* frames relay.ReadMessage returned
     obsWritten |-> <<>>,    \* payloads written to the OBS socket
     out |-> <<>>,           \* frames written to the relay socket
     events |-> 0,           \* events the monitor handed to sendEvent
     n |-> 0,
     pipe |-> "running"]

QueueInit ==
    /\ wq = NewQueue
    /\ clock = 0 /\ conv = "saturate" /\ nonces = NewNonceCache
    /\ BridgeIdle /\ PolicyIdle /\ RoundIdle /\ AgentIdle
    /\ ses = None /\ mon = None /\ lk = None /\ ExtraIdle

\* mutant of Receive: the writer takes the newest item of the channel
ReceiveNewest(ch) == [item |-> ch[Len(ch)], rest |-> SubSeq(ch, 1, Len(ch) - 1)]

\* case payload, ok := <-ch: the oldest item of the channel
Receive(ch) == [item |-> Head(ch), rest |-> Tail(ch)]

QueueMetIds ==
    {n.id : n \in DOMAIN nonces}
    \cup {wq.obsWritten[i].env.n.id : i \in DOMAIN wq.obsWritten}

\* a producer or a pipe may take its next step
QueueRunning == wq.pipe = "running" /\ wq.n < MaxQueueSteps

\* what the relay side puts on the wire in this session: requests and an
\* event sealed under the session key, a request sealed under another key,
\* text that is no envelope, a binary frame
QueueRelayFrames ==
    {[text |-> TRUE, data |-> f] :
        f \in {g \in RelayFrames :
                 /\ g.t <= clock
                 /\ \A q \in NonceIds : q < g.n.id => q \in QueueMetIds
                 /\ g.json =>
                      \/ /\ g.h.bytes = HMAC(SessionKey, g.t, g.n, g.p)
                         /\ \/ B64Decode(g.p).bytes \in {GetVersionMsg, EventMsg}
                            \/ WellFormedConfigure(B64Decode(g.p).bytes)
                      \/ /\ g.h.bytes # HMAC(SessionKey, g.t, g.n, g.p)
                         /\ B64Decode(g.p).bytes = GetVersionMsg}}
    \cup {[text |-> FALSE, data |-> NotJSON]}

\* one iteration of pipeOBSToRelay: a frame read from OBS is queued for the
\* writer when it is text and the outbound policy accepts it; a failed read
\* ends the session
pipeOBSToRelayQueue ==
    /\ QueueRunning
    /\ \/ \E f \in ObsFrames :
            wq' = [wq EXCEPT
                     !.n = @ + 1,
                     !.obsRead = Append(@, f),
                     !.ch = IF f.text /\ ValidateOBSProtocol(f.data, FromAgent).Valid
                            THEN TrySend(@, Item("obs", Len(wq.obsRead) + 1, f.data))
                            ELSE @]
       \/ wq' = [wq EXCEPT !.pipe = "OBS read error"]
    /\ UNCHANGED <<codecVars, WqRest>>

\* the callback EnvelopeBridge gives the monitor: non-blocking send of the
\* event Monitor.sendState built
sendEventQueue ==
    /\ QueueRunning
    /\ wq' = [wq EXCEPT !.n = @ + 1,
                        !.events = @ + 1,
                        !.ch = TrySend(@, Item("mon", wq.events + 1, AgentSourceState))]
    /\ UNCHANGED <<codecVars, WqRest>>

\* the ping ticker fires: non-blocking send of nil
pingTimerQueue ==
    /\ QueueRunning
    /\ wq' = [wq EXCEPT !.n = @ + 1,
                        !.ch = TrySend(@, Item("ping", 0, NilPayload))]
    /\ UNCHANGED <<codecVars, WqRest>>

\* one iteration of pipeRelayToOBS, as in the bridge, with the frame and the
\* write recorded
pipeRelayToOBSQueue ==
    /\ QueueRunning
    /\ \/ \E f \in QueueRelayFrames :
          \E o \in IF f.text THEN Open(SessionKey, f.data, nonces, clock)
                   ELSE {[res |-> Invalid("unread"), cache |-> nonces]} :
            LET check == ValidateOBSProtocol(o.res.Payload, ToAgent)
                what == Disposition(f.text, o.res, check)
                req == UnmarshalIntercept(o.res.Payload.d)
                cfg == UnmarshalConfig(req.RequestData)
                at == Len(wq.relayRead) + 1
                read == [wq EXCEPT !.n = @ + 1, !.relayRead = Append(@, f)]
            IN /\ nonces' = o.cache
               /\ IF what = "intercept"
                  THEN /\ monCfg' = IF cfg.err THEN monCfg ELSE Append(monCfg, cfg.cfg)
                       /\ wq' = [read EXCEPT
                                   !.ch = TrySend(@, Item("resp", at,
                                                   ConfigureResponse(req.RequestID)))]
                  ELSE IF what = "forward"
                  THEN /\ \/ wq' = [read EXCEPT
                                      !.obsWritten = Append(@,
                                          [at |-> at, payload |-> o.res.Payload,
                                           env |-> f.data])]
                          \/ wq' = [read EXCEPT !.pipe = "OBS write error"]
                       /\ UNCHANGED monCfg
                  ELSE wq' = read /\ UNCHANGED monCfg
       \/ /\ wq' = [wq EXCEPT !.pipe = "relay read error"]
          /\ UNCHANGED <<nonces, monCfg>>
    /\ UNCHANGED <<clock, conv, obsOut, relaySend, relayOut, pipe, nFrames,
                   acceptedAt, last, polVars, cdVars, agentVars, ses, mon, lk,
                   extraVars>>

\* one iteration of relayWriter: the oldest item of the channel is written
\* as a ping when nil, sealed and written as a text frame otherwise; a
\* payload Seal fails on is skipped, a failed write ends the session
relayWriterQueue ==
    /\ wq.pipe = "running"
    /\ wq.ch # <<>>
    /\ LET r == Receive(wq.ch)
           taken == [wq EXCEPT !.ch = r.rest]
       IN \/ /\ r.item.payload = NilPayload
             /\ wq' = [taken EXCEPT
                         !.out = Append(@, [type |-> "ping", src |-> r.item.src,
                                            at |-> r.item.at, data |-> NotJSON])]
          \/ /\ r.item.payload # NilPayload
             /\ wq' = [taken EXCEPT
                         !.out = Append(@,
                            [type |-> "text", src |-> r.item.src, at |-> r.item.at,
                             data |-> Seal(SessionKey, r.item.payload, clock,
                                           10 + Len(wq.out))])]
          \/ /\ r.item.payload # NilPayload
             /\ wq' = taken
          \/ wq' = [taken EXCEPT !.pipe = "relay write error"]
    /\ UNCHANGED <<codecVars, WqRest>>

QueueNext ==
    \/ pipeOBSToRelayQueue
    \/ sendEventQueue
    \/ pingTimerQueue
    \/ pipeRelayToOBSQueue
    \/ relayWriterQueue

SpecQueue == QueueInit /\ [][QueueNext]_vars

\* the places of the frames of one source among the frames written to the relay
OutOf(src) == {i \in DOMAIN wq.out : wq.out[i].src = src}

\* the frames read from OBS that the outbound policy accepts
Conforming ==
    {i \in DOMAIN wq.obsRead :
        wq.obsRead[i].text /\ ValidateOBSProtocol(wq.obsRead[i].data, FromAgent).Valid}

\* the envelope verifies under the session key
Verifies(e) ==
    /\ WellFormed(e)
    /\ e.h.bytes = HMAC(SessionKey, e.t, e.n, e.p)

\* C25: once the writer has emptied the channel, the relay has received one
\* sealed envelope for every conforming frame read from OBS and for every
\* monitor event, no more and no fewer, with pairwise distinct nonces, each
\* verifying under the session key.
EveryFrameAndEventSealed ==
    (wq.ch = <<>> /\ wq.pipe = "running") =>
        /\ Cardinality(OutOf("obs")) = Cardinality(Conforming)
        /\ Cardinality(OutOf("mon")) = wq.events
        /\ \A i, j \in OutOf("obs") \cup OutOf("mon") :
              wq.out[i].data.n = wq.out[j].data.n => i = j
        /\ \A i \in OutOf("obs") \cup OutOf("mon") : Verifies(wq.out[i].data)

\* C26: the writer channel never holds more than its capacity; a producer's
\* step on a full channel leaves the channel as it is and completes; and
\* whatever the channel holds, and whether or not the writer takes anything,
\* each producer can take its next step.
ProducersNeverBlock ==
    /\ [](Len(wq.ch) <= relaySendCap)
    /\ [][(wq'.n = wq.n + 1 /\ Len(wq.ch) = relaySendCap) => wq'.ch = wq.ch]_vars
    /\ [](QueueRunning =>
            /\ ENABLED pipeOBSToRelayQueue
            /\ ENABLED sendEventQueue
            /\ ENABLED pingTimerQueue
            /\ ENABLED pipeRelayToOBSQueue)

\* C26 witness: the writer has taken nothing, the channel is full, an event
\* and a conforming frame were offered beyond what it holds, and the
\* producers can go on
ProducersWitness ==
    /\ wq.out = <<>> /\ Len(wq.ch) = relaySendCap
    /\ wq.events >= 1 /\ Conforming # {}
    /\ wq.events + Cardinality(Conforming) > Len(wq.ch)
    /\ QueueRunning

\* C27: the frames sealed onto the relay for OBS are, in the order written,
\* frames read from OBS at increasing places, and each carries the payload
\* read at its place; the payloads written to OBS are, in the order written,
\* the payloads of envelopes read from the relay at increasing places.
OrderPreserved ==
    /\ \A i \in OutOf("obs") :
          /\ wq.out[i].at \in DOMAIN wq.obsRead
          /\ wq.out[i].type = "text"
          /\ B64Decode(wq.out[i].data.p).bytes = wq.obsRead[wq.out[i].at].data
    /\ \A i, j \in OutOf("obs") : i < j => wq.out[i].at < wq.out[j].at
    /\ \A i \in DOMAIN wq.obsWritten :
          /\ wq.obsWritten[i].at \in DOMAIN wq.relayRead
          /\ wq.relayRead[wq.obsWritten[i].at].data = wq.obsWritten[i].env
          /\ B64Decode(wq.obsWritten[i].env.p).bytes = wq.obsWritten[i].payload
    /\ \A i, j \in DOMAIN wq.obsWritten :
          i < j => wq.obsWritten[i].at < wq.obsWritten[j].at

\* C27 witness: two frames of OBS went out to the relay, with different
\* payloads, and two payloads were written to OBS
OrderWitness ==
    /\ \E i, j \in OutOf("obs") : i < j /\ wq.out[i].data.p # wq.out[j].data.p
    /\ Len(wq.obsWritten) >= 2

\* the edges of the status machine as specified
StatusEdges ==
    {<<"starting", "connecting_obs">>, <<"connecting_obs", "connecting_relay">>,
     <<"connecting_relay", "connected">>, <<"connecting_relay", "token_rejected">>,
     <<"reconnecting", "starting">>, <<"reconnecting", "connecting_obs">>}
    \cup {<<s, "reconnecting">> : s \in {"connecting_obs", "connecting_relay", "connected"}}
    \cup {<<s, "stopped">> : s \in {"starting", "connecting_obs", "connecting_relay",
                                    "connected", "reconnecting"}}

\* C31: every change of the status the supervisor shows follows an edge of
\* the specified machine; token_rejected is entered from connecting_relay
\* only, and nothing follows token_rejected or stopped.
StatusFollowsEdges ==
    [][statusSrv'.status # statusSrv.status =>
          <<statusSrv.status, statusSrv'.status>> \in StatusEdges]_vars

\* C37: once Start has returned, the OBS-connected and the relay-connected
\* flag of the status sink are both false.
FlagsFalseAfterReturn ==
    sup.pc = "returned" => ~statusSrv.obsConn /\ ~statusSrv.relayConn

\* a poll loop exists and has not terminated
LoopRunning == mon.loop.pc \notin {"none", "exited"}

\* C32: a call that is past stopLocked finds no poll loop running, so a new
\* loop is started only when there is none; and whenever no call is inside
\* Configure or Stop, a poll loop is running exactly when the call that
\* returned last was a Configure with enabled=true and a non-empty source,
\* and that loop, not cancelled, polls the source of that configuration.
LoopMatchesLastCall ==
    /\ \A c \in Callers : mon.call[c].pc = "finish" => ~LoopRunning
    /\ mon.mu = "free" =>
          /\ LoopRunning <=> mon.last = "enabled"
          /\ LoopRunning =>
                /\ ~mon.loop.done
                /\ mon.config.Enabled /\ mon.config.Source # ""
                /\ mon.loop.source = mon.config.Source

\* C32 witness: after three calls, the last of them a Configure for another
\* source, the loop of that source has handed an event to the callback
LoopMatchesWitness ==
    /\ mon.mu = "free" /\ mon.nCalls = MaxCalls /\ mon.last = "enabled"
    /\ mon.config.Source = "mic" /\ mon.loop.source = "mic"
    /\ mon.loop.pc = "select" /\ mon.tick.sent
    /\ mon.loop.pending.inputName = "mic"

\* C38: the callback is invoked only while the call that returned last is an
\* enabling Configure, and the event it is given names the source of that
\* configuration; after a Stop or a disabling Configure has returned no poll
\* loop is left to invoke it.
QuietAfterStop ==
    /\ [][(mon.loop.pc = "callback" /\ mon'.loop.pc = "select") =>
             /\ mon.last = "enabled"
             /\ mon.loop.pending.inputName = mon.config.Source]_vars
    /\ [](mon.last \in {"Stop", "disabled"} => ~LoopRunning)

\* C38 witness: a loop polling a second source has handed its event to the
\* callback, and the Stop that followed has returned
QuietWitness ==
    /\ mon.last = "Stop" /\ mon.mu = "free" /\ mon.nCalls = MaxCalls
    /\ mon.loop.pc = "exited" /\ mon.loop.source = "mic"
    /\ mon.tick.sent /\ mon.loop.pending.inputName = "mic"

(***************************************************************************)
(* One call of WaitForSession, frame by frame, with the frames it read.    *)
(***************************************************************************)
MaxHsFrames == 5            \* frames one call reads

HsRest == <<codecVars, bridgeVars, polVars, cdVars, agentVars, ses, mon, wq, lk,
            rel, wiz>>

\* what the relay may send during the handshake: text that is no JSON; a
\* session message whose nonce is a string, missing, or no string; messages
\* of the other types, and one whose type is no string
HsWire ==
    {[json |-> FALSE, type |-> JMissing, nonce |-> JMissing]}
    \cup {[json |-> TRUE, type |-> "session", nonce |-> n] :
            n \in {"abcd", "ef01", JMissing, JBadType}}
    \cup {[json |-> TRUE, type |-> t, nonce |-> JMissing] :
            t \in {"connected", "update_available", "other", JBadType}}

\* json.Unmarshal(data, &msg), lines 286-294
UnmarshalHandshake(w) ==
    IF ~w.json \/ FieldErr(w.type) \/ FieldErr(w.nonce)
    THEN [err |-> TRUE, type |-> "unparseable", nonce |-> ""]
    ELSE [err |-> FALSE, type |-> FieldValue(w.type), nonce |-> FieldValue(w.nonce)]

HandshakeInit ==
    /\ hs = [read |-> <<>>, key |-> NilKey, pc |-> "loop",
             result |-> [key |-> NilKey, err |-> Nil]]
    /\ CodecIdle /\ BridgeIdle /\ PolicyIdle /\ RoundIdle /\ AgentIdle
    /\ ses = None /\ mon = None /\ wq = None /\ lk = None
    /\ rel = None /\ wiz = None

\* conn.ReadMessage fails, lines 278-284
hsReadError ==
    /\ hs.pc = "loop"
    /\ \E code \in CloseCodes :
         hs' = [hs EXCEPT !.pc = "read error",
                          !.result = [key |-> NilKey, err |-> HandshakeReadError(code)]]
    /\ UNCHANGED HsRest

\* one frame read and handled, lines 277-320
hsFrame ==
    /\ hs.pc = "loop"
    /\ Len(hs.read) < MaxHsFrames
    /\ \E w \in HsWire :
         LET r == HandshakeFrame(hs.key, UnmarshalHandshake(w))
         IN hs' = [hs EXCEPT
                     !.read = Append(@, w),
                     !.key = r.key,
                     !.pc = IF r.ret THEN "returned" ELSE "loop",
                     !.result = IF ~r.ret THEN @
                                ELSE IF r.err = Nil THEN [key |-> r.key, err |-> Nil]
                                ELSE [key |-> NilKey, err |-> r.err]]
    /\ UNCHANGED HsRest

HandshakeNext == hsReadError \/ hsFrame

SpecHandshake == HandshakeInit /\ [][HandshakeNext]_vars

\* the frame is one WaitForSession takes for a session message with a nonce
IsSession(w) ==
    /\ ~UnmarshalHandshake(w).err
    /\ UnmarshalHandshake(w).type = "session" /\ UnmarshalHandshake(w).nonce # ""
\* the frame is a session message without nonce
IsBareSession(w) ==
    /\ ~UnmarshalHandshake(w).err
    /\ UnmarshalHandshake(w).type = "session" /\ UnmarshalHandshake(w).nonce = ""
IsConnected(w) ==
    ~UnmarshalHandshake(w).err /\ UnmarshalHandshake(w).type = "connected"

\* the session frames among the first n frames read
SessionsBefore(n) == {i \in 1..n : IsSession(hs.read[i])}
Max(S) == CHOOSE x \in S : \A y \in S : y <= x
\* the key the session frames among the first n frames lead to
KeyAfter(n) ==
    IF SessionsBefore(n) = {} THEN NilKey
    ELSE DeriveSessionKey(Token, hs.read[Max(SessionsBefore(n))].nonce)

\* C33: WaitForSession returns a key only when the last frame it read is a
\* connected frame and a session frame with a nonce came before it, and the
\* key is DeriveSessionKey(token, nonce) of the latest such session frame; a
\* connected frame with no session frame before it, and a session frame
\* without nonce, make it fail; while it reads on, the key it holds is that
\* of the session frames read, whatever other frames came in between.
HandshakeKeyFromSessionFrame ==
    LET n == Len(hs.read)
    IN /\ hs.pc = "loop" =>
             /\ hs.key = KeyAfter(n)
             /\ \A i \in 1..n : ~IsConnected(hs.read[i]) /\ ~IsBareSession(hs.read[i])
       /\ hs.pc = "returned" =>
             /\ n > 0
             /\ \A i \in 1..(n - 1) :
                   ~IsConnected(hs.read[i]) /\ ~IsBareSession(hs.read[i])
             /\ IsConnected(hs.read[n]) \/ IsBareSession(hs.read[n])
             /\ hs.result.err = Nil <=>
                   (IsConnected(hs.read[n]) /\ SessionsBefore(n - 1) # {})
             /\ hs.result.err = Nil =>
                   /\ hs.result.key = KeyAfter(n - 1)
                   /\ hs.result.key # NilKey
             /\ hs.result.err # Nil => hs.result.key = NilKey
       /\ hs.pc = "read error" => hs.result.err # Nil /\ hs.result.key = NilKey

\* C33 witness: two session frames with different nonces, frames of other
\* kinds around them, then connected: the call has returned the key of the
\* second nonce
HandshakeWitness ==
    /\ hs.pc = "returned" /\ hs.result.err = Nil
    /\ Len(hs.read) = MaxHsFrames
    /\ Cardinality(SessionsBefore(MaxHsFrames)) = 2
    /\ hs.result.key = DeriveSessionKey(Token, "ef01")
    /\ \E i \in 1..MaxHsFrames : UnmarshalHandshake(hs.read[i]).err
    /\ \E i \in 1..MaxHsFrames : hs.read[i].type = "update_available"

\* C34: an envelope Open has accepted once on a cache is never accepted by
\* it again, whatever was opened in between and however the clock went on.
NeverAcceptedTwice == ~(last.resubmitted /\ last.Valid)

\* the nonces evictExpired takes out of the cache at the present time
Expiring == DOMAIN nonces \ DOMAIN evictExpired(nonces, clock)

\* lemma: at a time when evictExpired removes a nonce, every envelope that
\* was accepted with that nonce fails the timestamp check made at that time
EvictedOnlyWhenExpired ==
    \A e \in DOMAIN acceptedAt : e.n \in Expiring => TimestampExpired(e, clock)

\* C35: as long as no more envelopes were opened than the cache can hold, so
\* that nothing but age can have removed a nonce, no envelope accepted
\* before is accepted again.
AgeEvictionNeverReadmits ==
    (last.resubmitted /\ last.Valid) => nFrames > maxNonceCache

\* the reasons Open gives before it touches the cache
EarlyReasons ==
    {"not_json", "bad_version", "bad_fields", "bad_nonce", "bad_hmac", "timestamp_expired"}

\* C36: on every cache and at every time the model reaches, an Open call
\* that answers not_json, bad_version, bad_fields, bad_nonce, bad_hmac or
\* timestamp_expired returns the cache as it found it, and a call that
\* changes the cache was made on an envelope with a valid HMAC inside the
\* timestamp window.
RejectedLeavesCache ==
    \A raw \in OfferedFrames : \A at \in Readings(clock, clock + 1) :
    \A o \in OpenReading(SessionKey, raw, nonces, at) :
        /\ o.res.Reason \in EarlyReasons => o.cache = nonces
        /\ o.cache # nonces =>
              /\ CheckFields(raw) = ""
              /\ VerifyHMAC(SessionKey, raw) /\ ~TimestampExpired(raw, clock)

\* C36 witness: an envelope accepted earlier was opened again and answered
\* timestamp_expired, while the cache holds a nonce old enough to be evicted
RejectedWitness ==
    /\ last.resubmitted /\ last.Reason = "timestamp_expired"
    /\ Expiring # {}

(***************************************************************************)
(* The release server: the handlers of POST /build and POST /promote, each *)
(* an async function on the single-threaded event loop, which runs a       *)
(* handler up to its next await and then turns to another.                 *)
(***************************************************************************)
MaxRequests == 3            \* POST requests the server receives

RelRest == <<codecVars, bridgeVars, polVars, cdVars, agentVars, ses, mon, wq, lk,
             hs, wiz>>

Requests == 1..MaxRequests
NoBuild == "null"
\* body.version: two versions of the form X.Y.Z, one that is not, and a
\* body that is no JSON
Bodies == {"1.0.0", "1.0.1", "latest", "not JSON"}
ValidVersion(b) == b \in {"1.0.0", "1.0.1"}

NoRequest == [pc |-> "none", path |-> "", body |-> "", answer |-> 0, sawBuild |-> FALSE]

ReleaseInit ==
    /\ rel = [activeBuild |-> NoBuild, req |-> [q \in Requests |-> NoRequest]]
    /\ CodecIdle /\ BridgeIdle /\ PolicyIdle /\ RoundIdle /\ AgentIdle
    /\ ses = None /\ mon = None /\ wq = None /\ lk = None
    /\ hs = None /\ wiz = None

\* the release.sh processes that are running
Running == {q \in Requests : rel.req[q].pc = "running"}

\* sendJson: the handler answers and is over
Answer(q, status) == [rel EXCEPT !.req[q].pc = "answered", !.req[q].answer = status]

\* a POST /build or POST /promote arrives: the handler runs up to its first
\* await, lines 177-180 and 205-208
relArrive(q) ==
    /\ rel.req[q].pc = "none"
    /\ \E path \in {"/build", "/promote"} : \E b \in Bodies :
         LET r == [rel EXCEPT !.req[q] = [pc |-> "parseBody", path |-> path, body |-> b,
                                          answer |-> 0, sawBuild |-> Running # {}]]
         IN IF rel.activeBuild # NoBuild
            THEN rel' = [r EXCEPT !.req[q].pc = "answered", !.req[q].answer = 409]
            ELSE rel' = r
    /\ UNCHANGED RelRest

\* parseBody has settled: lines 180-189 and 208-217, up to the await of
\* runRelease, which spawns the process
relParsed(q) ==
    /\ rel.req[q].pc = "parseBody"
    /\ IF ~ValidVersion(rel.req[q].body)
       THEN rel' = Answer(q, 400)
       ELSE rel' = [rel EXCEPT !.activeBuild = rel.req[q].body, !.req[q].pc = "running"]
    /\ UNCHANGED RelRest

\* the process has closed, or could not be spawned: lines 190-200, 218-228
relClosed(q) ==
    /\ rel.req[q].pc = "running"
    /\ \E status \in {200, 500} :
         rel' = [Answer(q, status) EXCEPT !.activeBuild = NoBuild]
    /\ UNCHANGED RelRest

ReleaseNext == \E q \in Requests : relArrive(q) \/ relParsed(q) \/ relClosed(q)

SpecRelease == ReleaseInit /\ [][ReleaseNext]_vars

\* GET /health: busy
Busy == rel.activeBuild # NoBuild

\* C39: at most one release.sh process runs at a time; a request that
\* arrived while one was running was answered 409 and started none; and the
\* busy flag of /health is true exactly while a release process is running.
OneReleaseAtATime ==
    /\ Cardinality(Running) <= 1
    /\ \A q \in Requests :
          rel.req[q].sawBuild => rel.req[q].pc = "answered" /\ rel.req[q].answer = 409
    /\ Busy <=> Running # {}

\* ---------------------------------------------------------------------
\* The setup wizard's local API (src/unnamed/part_013): POST
\* /api/wizard/name, the background device-auth poller, POST
\* /api/wizard/done and runWizard, which waits for doneCh.  A channel is
\* an identifier; wiz.closes counts the close() calls made on it.
\* ---------------------------------------------------------------------
MaxNameRequests == 2
MaxDoneRequests == 2

WizRest == <<codecVars, bridgeVars, polVars, cdVars, agentVars, ses, mon, wq, lk, hs, rel>>

NameRequests == 1..MaxNameRequests
DoneRequests == 1..MaxDoneRequests

\* runWizard makes two channels, every pending handleName one more
Chans == 1..(2 + MaxNameRequests)

\* what flow.RequestCode answers: the code's Status and Token
Codes == {[Status |-> "already_authorized", Token |-> "tok"],
          [Status |-> "already_authorized", Token |-> ""],
          [Status |-> "pending", Token |-> ""]}

\* the state runWizard leaves when it blocks on doneCh, lines 130-154
WizardInit ==
    /\ wiz = [doneCh |-> 1, authDone |-> 2, made |-> 2,
              closes |-> [c \in Chans |-> 0],
              mu |-> "free", crashed |-> FALSE, run |-> "waiting",
              token |-> "", authErr |-> FALSE, pollCancel |-> 0, cancelled |-> {},
              name |-> [q \in NameRequests |-> [pc |-> "none", code |-> None]],
              poll |-> [q \in NameRequests |-> "none"],
              done |-> [d \in DoneRequests |-> "none"]]
    /\ CodecIdle /\ BridgeIdle /\ PolicyIdle /\ RoundIdle /\ AgentIdle
    /\ ses = None /\ mon = None /\ wq = None /\ lk = None
    /\ hs = None /\ rel = None

\* the process is alive
WizAlive == ~wiz.crashed

\* w.mu can be taken: a handler that panicked between Lock and Unlock
\* left it held
MuFree == wiz.mu = "free"

\* <-ch is ready: the channel has been closed
IsClosed(w, c) == w.closes[c] > 0

\* close(ch): closing a closed channel panics
closeChan(w, c) == [w EXCEPT !.closes[c] = Min(w.closes[c] + 1, 2)]

\* select { case <-ch: default: close(ch) } evaluated as one step
closeOnce(w, c) == IF IsClosed(w, c) THEN w ELSE closeChan(w, c)

\* handleName, lines 199-235: the early returns, the read of wizCfg under
\* w.mu, flow.RequestCode and the store of its answer under w.mu
nameStart(q) ==
    /\ WizAlive /\ wiz.name[q].pc = "none"
    /\ \/ \* not a POST, a body that does not decode, an empty name
          wiz' = [wiz EXCEPT !.name[q].pc = "answered"]
       \/ /\ MuFree
          /\ \/ \* RequestCode failed
                wiz' = [wiz EXCEPT !.name[q].pc = "answered"]
             \/ \E code \in Codes :
                  wiz' = [wiz EXCEPT !.name[q] = [pc |-> "code", code |-> code]]
    /\ UNCHANGED WizRest

\* handleName, lines 237-247: the machine is already authorized
nameAuthorized(q) ==
    /\ WizAlive /\ MuFree /\ wiz.name[q].pc = "code"
    /\ LET code == wiz.name[q].code IN
       /\ code.Status = "already_authorized" /\ code.Token # ""
       /\ LET w == closeChan([wiz EXCEPT !.token = code.Token], wiz.authDone) IN
          IF IsClosed(wiz, wiz.authDone)
          THEN \* the panic leaves handleName with w.mu held; net/http
               \* recovers it and drops the connection
               wiz' = [w EXCEPT !.mu = "held", !.name[q].pc = "panicked"]
          ELSE wiz' = [w EXCEPT !.name[q].pc = "answered"]
    /\ UNCHANGED WizRest

\* handleName, lines 249-269: a new authDone, and the poller is started
namePending(q) ==
    /\ WizAlive /\ MuFree /\ wiz.name[q].pc = "code"
    /\ LET code == wiz.name[q].code IN
       ~(code.Status = "already_authorized" /\ code.Token # "")
    /\ wiz' = [wiz EXCEPT !.pollCancel = q, !.made = wiz.made + 1,
                          !.authDone = wiz.made + 1,
                          !.poll[q] = "polling", !.name[q].pc = "answered"]
    /\ UNCHANGED WizRest

\* pollDeviceAuth, lines 272-292: PollForToken has returned a token or an
\* error (a cancelled context is an error)
pollDeviceAuth(q) ==
    /\ WizAlive /\ MuFree /\ wiz.poll[q] = "polling"
    /\ \E ok \in BOOLEAN :
         /\ ok => q \notin wiz.cancelled
         /\ LET w == IF ok THEN [wiz EXCEPT !.token = "polled"]
                           ELSE [wiz EXCEPT !.authErr = TRUE]
            IN wiz' = closeOnce([w EXCEPT !.poll[q] = "returned"], wiz.authDone)
    /\ UNCHANGED WizRest

\* handleDone, lines 460-470: the answer is written and the goroutine started
handleDone(d) ==
    /\ WizAlive /\ wiz.done[d] = "none"
    /\ \/ wiz' = [wiz EXCEPT !.done[d] = "answered"]    \* not a POST
       \/ wiz' = [wiz EXCEPT !.done[d] = "sleep"]
    /\ UNCHANGED WizRest

\* the goroutine of handleDone, lines 472-475: the select, outside w.mu
doneSelect(d) ==
    /\ WizAlive /\ wiz.done[d] = "sleep"
    /\ wiz' = [wiz EXCEPT !.done[d] = IF IsClosed(wiz, wiz.doneCh) THEN "over" ELSE "default"]
    /\ UNCHANGED WizRest

\* the goroutine of handleDone, line 476: close(w.doneCh); a panic in a
\* goroutine of its own ends the process
doneClose(d) ==
    /\ WizAlive /\ wiz.done[d] = "default"
    /\ wiz' = [closeChan([wiz EXCEPT !.done[d] = "over"], wiz.doneCh)
                 EXCEPT !.crashed = IsClosed(wiz, wiz.doneCh)]
    /\ UNCHANGED WizRest

\* runWizard, lines 154-160: doneCh is closed, the poller is cancelled
runWizardReturn ==
    /\ WizAlive /\ wiz.run = "waiting" /\ IsClosed(wiz, wiz.doneCh)
    /\ wiz' = [wiz EXCEPT !.run = "returned",
                          !.cancelled = IF wiz.pollCancel = 0 THEN wiz.cancelled
                                        ELSE wiz.cancelled \cup {wiz.pollCancel}]
    /\ UNCHANGED WizRest

WizardNext ==
    \/ \E q \in NameRequests : nameStart(q) \/ nameAuthorized(q) \/ namePending(q)
                               \/ pollDeviceAuth(q)
    \/ \E d \in DoneRequests : handleDone(d) \/ doneSelect(d) \/ doneClose(d)
    \/ runWizardReturn

SpecWizard == WizardInit /\ [][WizardNext]_vars

\* C40: whatever the wizard requests and the poller do, no channel is
\* closed more than once (a second close panics).
ClosedAtMostOnce == \A c \in Chans : wiz.closes[c] <= 1

\* the part of C40 that holds: the poller never closes a closed channel
PollerNeverClosesTwice ==
    [][\A q \in NameRequests :
          pollDeviceAuth(q) => \A c \in Chans : wiz'.closes[c] > wiz.closes[c] => wiz.closes[c] = 0]_vars

\* doneCh is closed twice, by two goroutines of handleDone
DoneChClosedTwice == wiz.closes[wiz.doneCh] > 1

\* authDone is closed twice, by handleName
AuthDoneClosedTwice == \E q \in NameRequests : wiz.name[q].pc = "panicked"
====
